---- MODULE Spec2Model ----
(***************************************************************************)
(* Model of the Deburger static-analysis engine: the orchestrator          *)
(* (analyzeFiles / analyzeFile / parseCode), its four rules (unused-vars,  *)
(* long-function, async-no-try-catch, deep-nesting) run as visitors over a *)
(* depth-first traversal of a syntax tree, and the token-budget trimmer    *)
(* (trimForTokens).                                                        *)
(*                                                                         *)
(* A syntax tree is the sequence of its nodes in traversal (pre-)order,    *)
(* each node naming its parent and the key under which it hangs there.     *)
(* Identifier names and texts are sequences of one-character strings, so   *)
(* that startsWith, trim, split and length are computed, not assumed.      *)
(***************************************************************************)
EXTENDS Integers, Sequences, FiniteSets, TLC

VARIABLES
    files,          \* analyzeFiles: the files argument (what the parser yields for each text)
    configArg,      \* analyzeFiles: the config argument, <<>> when not passed
    pc,             \* position of the call in analyzeFiles / analyzeFile / rule.run
    fileIdx,        \* index of `file` in the for-of loop of analyzeFiles
    ruleIdx,        \* index of `rule` in the for-of loop of analyzeFile
    pos,            \* next traversal event of the running rule
    ast,            \* analyzeFile: the tree returned by parseCode (<<>> stands for null)
    allIssues,      \* analyzeFiles: allIssues
    issues,         \* analyzeFile: issues
    ruleIssues,     \* rule.run: its local issues
    declaredVars,   \* unusedVarsRule.run: the Map, in insertion order
    currentDepth,   \* deepNestingRule.run: currentDepth
    depthStack,     \* deepNestingRule.run: depthStack
    raised,         \* TRUE when an exception left analyzeFiles
    earlier,        \* the earlier call of analyzeFiles on a longer list, if any
    text,           \* trimForTokens: text
    maxTokens,      \* trimForTokens: maxTokens
    trimmed,        \* trimForTokens: the returned string
    tpc,            \* position of the trimForTokens call
    previous,       \* the earlier call whose result is the text of this one, if any
    lines,          \* trimForTokens: lines
    lineIdx,        \* trimForTokens: index of `line` in the for-of loop
    comments,       \* trimForTokens: comments
    imports,        \* trimForTokens: imports
    typeDeclarations,   \* trimForTokens: typeDeclarations
    functionSignatures, \* trimForTokens: functionSignatures
    exports,        \* trimForTokens: exports
    inBlockComment, \* trimForTokens: inBlockComment
    inFunction,     \* trimForTokens: inFunction
    braceDepth,     \* trimForTokens: braceDepth
    ctxFiles,       \* buildContext: files
    ctxIssues,      \* buildContext: the array passed as issues (sort works in place)
    issuesAtCall,   \* the contents of that array when buildContext was called
    projectRoot,    \* buildContext: projectRoot, <<>> when not passed
    manifest,       \* what the file system holds at <projectRoot>/package.json
    fileSummaries,  \* buildContext: fileSummaries
    topIssues,      \* buildContext: topIssues
    dependencies,   \* buildContext: dependencies
    context,        \* buildContext: the returned object, <<>> before the return
    cpc,            \* position of the buildContext call
    promptIssue,    \* buildPrompt: issue, <<>> when no call is under way
    promptContext,  \* buildPrompt: contextSummary
    prompt,         \* buildPrompt: the string the chain of replace calls has reached
    ppc,            \* buildPrompt: the next replace call (1..5), 0 before the call, 6 after it
    treeIssues,     \* AIDebuggerTreeProvider: this.issues
    setArg,         \* the array the caller passed to the latest setIssues, as it is now
    setArgAtCall,   \* the contents of that array when setIssues was called
    children,       \* what the latest getChildren call returned, if one was made since
    setCalls,       \* number of setIssues calls so far
    issuesMap,      \* DiagnosticsManager: issuesMap, its entries in insertion order
    diagnosticCollection,   \* DiagnosticsManager: what diagnosticCollection holds
    lastDiag,       \* the latest updateDiagnostics or clear call, <<>> before any
    diagCalls,      \* number of updateDiagnostics and clear calls so far
    runs,           \* the invocations of runAnalysis, in the order they started
    workspace,      \* what the workspace folder holds on disk, by the issues it has
    edits           \* number of changes made to the workspace so far

analyzerVars == <<files, configArg, pc, fileIdx, ruleIdx, pos, ast, allIssues, issues,
                  ruleIssues, declaredVars, currentDepth, depthStack, raised, earlier>>
trimLocals == <<lines, lineIdx, comments, imports, typeDeclarations, functionSignatures,
                exports, inBlockComment, inFunction, braceDepth>>
trimVars == <<text, maxTokens, trimmed, tpc, previous, lines, lineIdx, comments, imports,
              typeDeclarations, functionSignatures, exports, inBlockComment, inFunction,
              braceDepth>>
contextVars == <<ctxFiles, ctxIssues, issuesAtCall, projectRoot, manifest, fileSummaries,
                 topIssues, dependencies, context, cpc>>
promptVars == <<promptIssue, promptContext, prompt, ppc>>
sidebarVars == <<treeIssues, setArg, setArgAtCall, children, setCalls>>
diagVars == <<issuesMap, diagnosticCollection, lastDiag, diagCalls>>
runVars == <<runs, workspace, edits>>
shellVars == <<promptVars, sidebarVars, diagVars, runVars>>
notAnalyzer == <<trimVars, contextVars, shellVars>>
notTrim == <<analyzerVars, contextVars, shellVars>>
notContext == <<analyzerVars, trimVars, shellVars>>
coreVars == <<analyzerVars, trimVars, contextVars>>
notPrompt == <<coreVars, sidebarVars, diagVars, runVars>>
notSidebar == <<coreVars, promptVars, diagVars, runVars>>
notDiag == <<coreVars, promptVars, sidebarVars, runVars>>
notRun == <<coreVars, promptVars>>
vars == <<files, configArg, pc, fileIdx, ruleIdx, pos, ast, allIssues, issues,
          ruleIssues, declaredVars, currentDepth, depthStack, raised, earlier,
          text, maxTokens, trimmed, tpc, previous, lines, lineIdx, comments, imports,
          typeDeclarations, functionSignatures, exports, inBlockComment, inFunction,
          braceDepth,
          ctxFiles, ctxIssues, issuesAtCall, projectRoot, manifest, fileSummaries,
          topIssues, dependencies, context, cpc, shellVars>>

----------------------------------------------------------------------------
(* Generic helpers *)

Last(s) == s[Len(s)]
Front(s) == SubSeq(s, 1, Len(s) - 1)
Range(s) == {s[i] : i \in 1..Len(s)}
SelectIdx(s, Test(_)) == {i \in 1..Len(s) : Test(s[i])}

RECURSIVE SeqsUpTo(_, _)
SeqsUpTo(S, n) ==
    IF n = 0 THEN {<<>>}
    ELSE LET shorter == SeqsUpTo(S, n - 1)
         IN shorter \cup {Append(s, x) : s \in {t \in shorter : Len(t) = n - 1}, x \in S}

RECURSIVE Concat(_)
Concat(ss) == IF ss = <<>> THEN <<>> ELSE Head(ss) \o Concat(Tail(ss))

\* Mutant of Push: the items go to the front (unshift)
PushFront(list, items) == items \o list

\* Array.prototype.push(...items)
Push(list, items) == list \o items

\* JavaScript `opt || dflt` on an optional number: undefined and 0 are falsy
OrDefault(opt, dflt) == IF opt = <<>> \/ opt[1] = 0 THEN dflt ELSE opt[1]

\* String.prototype.startsWith on character sequences
StartsWith(s, prefix) ==
    Len(s) >= Len(prefix) /\ SubSeq(s, 1, Len(prefix)) = prefix

----------------------------------------------------------------------------
(* Syntax trees *)

FunctionTypes == {"FunctionDeclaration", "FunctionExpression",
                  "ArrowFunctionExpression", "ClassMethod", "ObjectMethod"}

Node(type, parent, key, name, async, line, column, endLine) ==
    [type |-> type, parent |-> parent, key |-> key, name |-> name, async |-> async,
     line |-> line, column |-> column, endLine |-> endLine]

\* The children of node i hanging under `key`, in order
ChildrenAt(tree, i, key) ==
    SelectSeq([j \in 1..Len(tree) |-> j],
              LAMBDA j : tree[j].parent = i /\ tree[j].key = key)

RECURSIVE IsAncestor(_, _, _)
IsAncestor(tree, a, d) ==
    /\ d # 0
    /\ tree[d].parent # 0
    /\ (tree[d].parent = a \/ IsAncestor(tree, a, tree[d].parent))

\* NodePath.getFunctionParent: the nearest enclosing function node, 0 for none
RECURSIVE GetFunctionParent(_, _)
GetFunctionParent(tree, d) ==
    LET p == tree[d].parent IN
    IF p = 0 THEN 0
    ELSE IF tree[p].type \in FunctionTypes THEN p
    ELSE GetFunctionParent(tree, p)

\* traverse(): the enter and exit events of a depth-first walk
RECURSIVE EventsFrom(_, _, _)
EventsFrom(tree, i, open) ==
    IF i > Len(tree) THEN
        IF open = <<>> THEN <<>>
        ELSE <<[enter |-> FALSE, node |-> Last(open)]>> \o EventsFrom(tree, i, Front(open))
    ELSE IF open # <<>> /\ Last(open) # tree[i].parent THEN
        <<[enter |-> FALSE, node |-> Last(open)]>> \o EventsFrom(tree, i, Front(open))
    ELSE <<[enter |-> TRUE, node |-> i]>> \o EventsFrom(tree, i + 1, Append(open, i))

\* The events on which a traversal calls a visitor: every rule has visitors
\* that run on entering a node, only deepNestingRule has one that runs on exit
Events(tree, withExit) ==
    SelectSeq(EventsFrom(tree, 1, <<>>), LAMBDA e : e.enter \/ withExit)

----------------------------------------------------------------------------
(* Source programs.  A program is a sequence of items in source order, each *)
(* with its nesting level; Parse lays the items out one per line (a        *)
(* container closes with a brace on its own line after `pad` further body  *)
(* lines) and yields the tree the parser builds for that text.             *)

Item(kind, type, name, params, async, pad) ==
    [kind |-> kind, type |-> type, lvl |-> 0, name |-> name, params |-> params,
     async |-> async, pad |-> pad]

At(item, lvl) == [item EXCEPT !.lvl = lvl]

Decl(name) == Item("Decl", "VariableDeclarator", name, <<>>, FALSE, 0)      \* var name = 1;
PatDecl == Item("PatDecl", "VariableDeclarator", <<>>, <<>>, FALSE, 0)      \* var {} = o;
Ref(name) == Item("Ref", "Identifier", name, <<>>, FALSE, 0)                \* name;
Key(name) == Item("Key", "ObjectProperty", name, <<>>, FALSE, 0)            \* ({name: 1});
Prop(name) == Item("Prop", "MemberExpression", name, <<>>, FALSE, 0)        \* this.name;
ArrowExpr(params, async) ==                                                  \* (params) => 1;
    Item("ArrowExpr", "ArrowFunctionExpression", <<>>, params, async, 0)
Func(type, name, params, async, pad) ==                                      \* function name(params) { ... }
    Item("Func", type, name, params, async, pad)
Nest(type) == Item("Nest", type, <<>>, <<>>, FALSE, 0)                       \* if (...) { ... }

IsContainer(item) == item.kind \in {"Func", "Nest"}

\* Levels are consistent: an item sits at most one level below the previous
\* item, and below it only when that item is a container
WellNested(items) ==
    /\ items # <<>> => items[1].lvl = 0
    /\ \A k \in 2..Len(items) :
          items[k].lvl <= items[k-1].lvl + (IF IsContainer(items[k-1]) THEN 1 ELSE 0)

\* The nodes of one item; base is the number of nodes before it
Group(item, parent, base, line) ==
    LET c == 2 * item.lvl
        leaf(type, par, key, name, col) ==
            Node(type, par, key, name, FALSE, line, col, line)
        paramNodes(par) ==
            [j \in 1..Len(item.params) |->
                leaf("Identifier", par, "params", item.params[j], c + 9 + 2 * j)]
    IN CASE item.kind = "Decl" ->
              <<leaf("VariableDeclarator", parent, "declarations", <<>>, c + 4),
                leaf("Identifier", base + 1, "id", item.name, c + 4)>>
         [] item.kind = "PatDecl" ->
              <<leaf("VariableDeclarator", parent, "declarations", <<>>, c + 4),
                leaf("ObjectPattern", base + 1, "id", <<>>, c + 4)>>
         [] item.kind = "Ref" ->
              <<leaf("Identifier", parent, "expression", item.name, c)>>
         [] item.kind = "Key" ->
              <<leaf("ObjectProperty", parent, "properties", <<>>, c + 2),
                leaf("Identifier", base + 1, "key", item.name, c + 2)>>
         [] item.kind = "Prop" ->
              <<leaf("MemberExpression", parent, "expression", <<>>, c),
                leaf("ThisExpression", base + 1, "object", <<>>, c),
                leaf("Identifier", base + 1, "property", item.name, c + 5)>>
         [] item.kind = "ArrowExpr" ->
              <<Node(item.type, parent, "expression", <<>>, item.async, line, c, line)>>
              \o paramNodes(base + 1)
              \o <<leaf("NumericLiteral", base + 1, "body", <<>>, c + 30)>>
         [] item.kind = "Func" ->
              <<Node(item.type, parent, "body", <<>>, item.async, line, c, line)>>
              \o (IF item.name = <<>> THEN <<>>
                  ELSE <<leaf("Identifier", base + 1,
                              IF item.type \in {"ClassMethod", "ObjectMethod"}
                              THEN "key" ELSE "id",
                              item.name, c + 9)>>)
              \o paramNodes(base + 1)
              \o <<leaf("BlockStatement", base + 1, "body", <<>>, c + 30)>>
         [] item.kind = "Nest" ->
              <<Node(item.type, parent, "body", <<>>, FALSE, line, c, line)>>

RECURSIVE Build(_, _, _, _, _)
Build(items, k, nodes, open, line) ==
    IF k > Len(items) /\ open = <<>> THEN nodes
    ELSE IF open # <<>> /\ (k > Len(items) \/ items[k].lvl <= Last(open).lvl) THEN
        \* the closing brace of the innermost open container
        LET top == Last(open)
            closed == [nodes EXCEPT ![top.node].endLine = line + top.pad,
                                    ![top.attach].endLine = line + top.pad]
        IN Build(items, k, closed, Front(open), line + top.pad + 1)
    ELSE
        LET item == items[k]
            parent == IF open = <<>> THEN 0 ELSE Last(open).attach
            grp == Group(item, parent, Len(nodes), line)
            opened == IF IsContainer(item)
                      THEN Append(open, [lvl |-> item.lvl, node |-> Len(nodes) + 1,
                                         attach |-> Len(nodes) + Len(grp),
                                         pad |-> item.pad])
                      ELSE open
        IN Build(items, k + 1, nodes \o grp, opened, line + 1)

Parse(items) == Build(items, 1, <<>>, <<>>, 1)

----------------------------------------------------------------------------
(* Issues and thresholds *)

Msg(template, name, n, max) == [template |-> template, name |-> name, n |-> n, max |-> max]

\* Variant of Issue: columns are counted from 1
IssueOneBased(file, line, column, ruleId, message, severity) ==
    [file |-> file, line |-> line, column |-> column + 1, ruleId |-> ruleId,
     message |-> message, severity |-> severity]

Issue(file, line, column, ruleId, message, severity) ==
    [file |-> file, line |-> line, column |-> column, ruleId |-> ruleId,
     message |-> message, severity |-> severity]

RULES == <<"unused-vars", "long-function", "async-no-try-catch", "deep-nesting">>

DefaultMaxFunctionLines == 80
DefaultMaxNestingDepth == 4
DEFAULT_CONFIG == [maxFunctionLines |-> <<DefaultMaxFunctionLines>>,
                   maxNestingDepth |-> <<DefaultMaxNestingDepth>>]

\* analyzeFiles(files, config = DEFAULT_CONFIG): the default applies when the
\* argument is not passed
Config == IF configArg = <<>> THEN DEFAULT_CONFIG ELSE configArg[1]

----------------------------------------------------------------------------
(* unusedVarsRule *)

MapHas(m, name) == \E k \in 1..Len(m) : m[k].name = name

\* Map.prototype.set: a new key is appended, an existing key keeps its place
\* and takes the new value
MapSet(m, name, node) ==
    LET entry == [name |-> name, node |-> node, used |-> FALSE] IN
    IF MapHas(m, name)
    THEN [k \in 1..Len(m) |-> IF m[k].name = name THEN entry ELSE m[k]]
    ELSE Append(m, entry)

\* const varInfo = declaredVars.get(name); if (varInfo) varInfo.used = true
MarkUsed(m, name) ==
    [k \in 1..Len(m) |-> IF m[k].name = name THEN [m[k] EXCEPT !.used = TRUE] ELSE m[k]]

\* Mutant of TrackDeclaration: the leading underscore is not looked at
TrackAnyDeclaration(m, tree, id) ==
    IF tree[id].type = "Identifier" THEN MapSet(m, tree[id].name, id) ELSE m

\* if (param.type === 'Identifier' && !param.name.startsWith('_')) declaredVars.set(...)
TrackDeclaration(m, tree, id) ==
    IF tree[id].type = "Identifier" /\ ~StartsWith(tree[id].name, <<"_">>)
    THEN MapSet(m, tree[id].name, id)
    ELSE m

\* path.node.params.forEach(...)
RECURSIVE TrackParams(_, _, _)
TrackParams(m, tree, params) ==
    IF params = <<>> THEN m
    ELSE TrackParams(TrackDeclaration(m, tree, Head(params)), tree, Tail(params))

\* The positions the Identifier visitor returns from without marking a use
IsDeclarationOrKey(tree, i) ==
    LET p == tree[i].parent IN
    /\ p # 0
    /\ \/ tree[p].type = "VariableDeclarator" /\ tree[i].key = "id"
       \/ tree[p].type = "FunctionDeclaration" /\ tree[i].key = "id"
       \/ tree[p].type = "ObjectProperty" /\ tree[i].key = "key"
       \/ tree[p].type = "MemberExpression" /\ tree[i].key = "property"

\* The visitors of unusedVarsRule on entering node i
UnusedVarsEnter(m, tree, i) ==
    CASE tree[i].type = "VariableDeclarator" ->
            TrackDeclaration(m, tree, ChildrenAt(tree, i, "id")[1])
      [] tree[i].type \in {"FunctionDeclaration", "ArrowFunctionExpression",
                           "FunctionExpression"} ->
            TrackParams(m, tree, ChildrenAt(tree, i, "params"))
      [] tree[i].type = "Identifier" ->
            IF IsDeclarationOrKey(tree, i) THEN m ELSE MarkUsed(m, tree[i].name)
      [] OTHER -> m

\* for (const [name, info] of declaredVars) if (!info.used && info.node.loc) issues.push(...)
UnusedReport(m, tree, filePath) ==
    LET unused == SelectSeq(m, LAMBDA e : ~e.used) IN
    [k \in 1..Len(unused) |->
        Issue(filePath, tree[unused[k].node].line, tree[unused[k].node].column,
              "unused-vars",
              Msg("Variable '${name}' is declared but never used", unused[k].name, 0, 0),
              "warning")]

----------------------------------------------------------------------------
(* longFunctionRule *)

\* node.id?.name || node.key?.name || fallback
FunctionName(tree, i, fallback) ==
    LET ids == ChildrenAt(tree, i, "id")
        keys == ChildrenAt(tree, i, "key")
    IN IF ids # <<>> /\ tree[ids[1]].name # <<>> THEN tree[ids[1]].name
       ELSE IF keys # <<>> /\ tree[keys[1]].name # <<>> THEN tree[keys[1]].name
       ELSE fallback

\* const maxLines = config.maxFunctionLines || 80
LongFunctionFallback == 80
MaxLines(config) == OrDefault(config.maxFunctionLines, LongFunctionFallback)

LineCount(node) == node.endLine - node.line + 1

\* checkFunctionLength: the issues it pushes for node i
CheckFunctionLength(tree, i, filePath, maxLines) ==
    IF LineCount(tree[i]) > maxLines
    THEN <<Issue(filePath, tree[i].line, tree[i].column, "long-function",
                 Msg("Function '${functionName}' is ${lineCount} lines long (max ${maxLines})",
                     FunctionName(tree, i, <<"anonymous function">>),
                     LineCount(tree[i]), maxLines),
                 "warning")>>
    ELSE <<>>

LongFunctionEnter(tree, i, filePath, config) ==
    IF tree[i].type \in FunctionTypes
    THEN CheckFunctionLength(tree, i, filePath, MaxLines(config))
    ELSE <<>>

----------------------------------------------------------------------------
(* asyncNoTryCatchRule *)

\* Mutant of HasTryCatch: any try statement below the node counts, also one
\* inside a nested function
HasTryBelow(tree, i) ==
    /\ tree[ChildrenAt(tree, i, "body")[1]].type = "BlockStatement"
    /\ \E d \in 1..Len(tree) : IsAncestor(tree, i, d) /\ tree[d].type = "TryStatement"

\* The sub-traversal of checkForTryCatch: a TryStatement below node i whose
\* function parent is node i, looked for only under a block body
HasTryCatch(tree, i) ==
    /\ tree[ChildrenAt(tree, i, "body")[1]].type = "BlockStatement"
    /\ \E d \in 1..Len(tree) :
          /\ IsAncestor(tree, i, d)
          /\ tree[d].type = "TryStatement"
          /\ GetFunctionParent(tree, d) = i

CheckForTryCatch(tree, i, filePath) ==
    IF ~HasTryCatch(tree, i)
    THEN <<Issue(filePath, tree[i].line, tree[i].column, "async-no-try-catch",
                 Msg("Async function '${functionName}' should have try/catch error handling",
                     FunctionName(tree, i, <<"async function">>), 0, 0),
                 "warning")>>
    ELSE <<>>

AsyncEnter(tree, i, filePath) ==
    IF tree[i].type \in FunctionTypes /\ tree[i].async
    THEN CheckForTryCatch(tree, i, filePath)
    ELSE <<>>

----------------------------------------------------------------------------
(* deepNestingRule *)

NestingTypes == {"IfStatement", "ForStatement", "ForInStatement", "ForOfStatement",
                 "WhileStatement", "DoWhileStatement", "SwitchStatement",
                 "TryStatement", "CatchClause", "WithStatement"}

IsNestingNode(node) == node.type \in NestingTypes

GetNodeDescription(node) ==
    CASE node.type = "IfStatement" -> "If statement"
      [] node.type \in {"ForStatement", "ForInStatement", "ForOfStatement"} -> "For loop"
      [] node.type \in {"WhileStatement", "DoWhileStatement"} -> "While loop"
      [] node.type = "SwitchStatement" -> "Switch statement"
      [] node.type = "TryStatement" -> "Try statement"
      [] node.type = "CatchClause" -> "Catch clause"
      [] OTHER -> "Block"

\* const maxDepth = config.maxNestingDepth || 4
DeepNestingFallback == 4
MaxDepth(config) == OrDefault(config.maxNestingDepth, DeepNestingFallback)

\* The issue pushed on entering a nesting node at depth `depth`
DeepNestingReport(tree, i, filePath, depth, maxDepth) ==
    IF depth > maxDepth
    THEN <<Issue(filePath, tree[i].line, tree[i].column, "deep-nesting",
                 Msg("${nodeType} has nesting depth ${currentDepth} (max ${maxDepth})",
                     <<GetNodeDescription(tree[i])>>, depth, maxDepth),
                 "warning")>>
    ELSE <<>>

\* Mutant of DepthAfterExit: the node is compared with the oldest entry
DepthAfterExitOldest(stack, depth, i) ==
    IF stack # <<>> /\ stack[1].node = i THEN depth - 1 ELSE depth

\* depthStack.pop(); if (last && last.node === node) currentDepth--
DepthAfterExit(stack, depth, i) ==
    IF stack # <<>> /\ Last(stack).node = i THEN depth - 1 ELSE depth

----------------------------------------------------------------------------
(* The orchestrator: analyzeFiles, analyzeFile, parseCode *)

\* A file of the input: its path, whether the parser accepts its text, the
\* tree it yields, and the rule (0 for none) whose traversal throws on
\* reaching event raiseAt of this tree
FileInput(path, parses, tree, raiseRule, raiseAt) ==
    [path |-> path, parses |-> parses, tree |-> tree,
     walk |-> Events(tree, TRUE),     \* the order in which traverse() walks the tree
     raiseRule |-> raiseRule, raiseAt |-> raiseAt]

File == files[fileIdx]

RuleThrows == File.raiseRule = ruleIdx /\ pos = File.raiseAt

\* The events of the traversal of the running rule
RuleEvents ==
    IF RULES[ruleIdx] = "deep-nesting" THEN File.walk
    ELSE SelectSeq(File.walk, LAMBDA e : e.enter)

TrimLocalsFresh ==
    /\ lines = <<>>
    /\ lineIdx = 0
    /\ comments = <<>>
    /\ imports = <<>>
    /\ typeDeclarations = <<>>
    /\ functionSignatures = <<>>
    /\ exports = <<>>
    /\ inBlockComment = FALSE
    /\ inFunction = FALSE
    /\ braceDepth = 0

\* buildContext is not running
ContextIdle ==
    /\ ctxFiles = <<>>
    /\ ctxIssues = <<>>
    /\ issuesAtCall = <<>>
    /\ projectRoot = <<>>
    /\ manifest = <<>>
    /\ fileSummaries = <<>>
    /\ topIssues = <<>>
    /\ dependencies = <<>>
    /\ context = <<>>
    /\ cpc = "idle"

TrimIdle ==
    /\ tpc = "idle" /\ text = <<>> /\ maxTokens = 0 /\ trimmed = <<>>
    /\ previous = <<>>
    /\ TrimLocalsFresh

AnalyzerStart ==
    /\ pc = "loop"
    /\ fileIdx = 1
    /\ ruleIdx = 0
    /\ pos = 0
    /\ ast = <<>>
    /\ allIssues = <<>>
    /\ issues = <<>>
    /\ ruleIssues = <<>>
    /\ declaredVars = <<>>
    /\ currentDepth = 0
    /\ depthStack = <<>>
    /\ raised = FALSE
    /\ earlier = <<>>

\* analyzeFiles is not running
AnalyzerIdle ==
    /\ files = <<>>
    /\ configArg = <<>>
    /\ pc = "idle"
    /\ fileIdx = 0
    /\ ruleIdx = 0
    /\ pos = 0
    /\ ast = <<>>
    /\ allIssues = <<>>
    /\ issues = <<>>
    /\ ruleIssues = <<>>
    /\ declaredVars = <<>>
    /\ currentDepth = 0
    /\ depthStack = <<>>
    /\ raised = FALSE
    /\ earlier = <<>>

\* The locals of rule.run are gone once the call is over
RuleLocalsDropped ==
    /\ pos' = 0
    /\ ruleIssues' = <<>>
    /\ declaredVars' = <<>>
    /\ currentDepth' = 0
    /\ depthStack' = <<>>

\* analyzeFile: parseCode returns a tree
ParseOk ==
    /\ pc = "loop"
    /\ fileIdx <= Len(files)
    /\ File.parses
    /\ ast' = File.tree
    /\ issues' = <<>>
    /\ ruleIdx' = 1
    /\ pc' = "rules"
    /\ UNCHANGED <<earlier, files, configArg, fileIdx, pos, allIssues, ruleIssues, declaredVars,
                   currentDepth, depthStack, raised>>
    /\ UNCHANGED notAnalyzer

\* Mutant of ParseFail: the loop of analyzeFiles ends at the file that fails to parse
ParseFailStops ==
    /\ pc = "loop"
    /\ fileIdx <= Len(files)
    /\ ~File.parses
    /\ pc' = "done"
    /\ UNCHANGED <<earlier, files, configArg, fileIdx, ruleIdx, pos, ast, allIssues, issues,
                   ruleIssues, declaredVars, currentDepth, depthStack, raised>>
    /\ UNCHANGED notAnalyzer

\* analyzeFile: parse throws, parseCode catches and returns null, analyzeFile
\* returns its empty issues, analyzeFiles pushes them and goes on
ParseFail ==
    /\ pc = "loop"
    /\ fileIdx <= Len(files)
    /\ ~File.parses
    /\ allIssues' = Push(allIssues, <<>>)
    /\ fileIdx' = fileIdx + 1
    /\ UNCHANGED <<earlier, files, configArg, pc, ruleIdx, pos, ast, issues, ruleIssues,
                   declaredVars, currentDepth, depthStack, raised>>
    /\ UNCHANGED notAnalyzer

\* analyzeFile: rule.run(ast, file.path, file.text, config) is called
RuleStart ==
    /\ pc = "rules"
    /\ ruleIdx <= Len(RULES)
    /\ pc' = "run"
    /\ pos' = 1
    /\ ruleIssues' = <<>>
    /\ declaredVars' = <<>>
    /\ currentDepth' = 0
    /\ depthStack' = <<>>
    /\ UNCHANGED <<earlier, files, configArg, fileIdx, ruleIdx, ast, allIssues, issues, raised>>
    /\ UNCHANGED notAnalyzer

\* One step of traverse(ast, visitors) in the running rule
Visit ==
    /\ pc = "run"
    /\ pos <= Len(RuleEvents)
    /\ ~RuleThrows
    /\ LET ev == RuleEvents[pos]
           i == ev.node
           rule == RULES[ruleIdx]
       IN /\ declaredVars' =
                 IF rule = "unused-vars" /\ ev.enter
                 THEN UnusedVarsEnter(declaredVars, ast, i)
                 ELSE declaredVars
          /\ currentDepth' =
                 IF rule = "deep-nesting" /\ IsNestingNode(ast[i])
                 THEN IF ev.enter THEN currentDepth + 1
                      ELSE DepthAfterExit(depthStack, currentDepth, i)
                 ELSE currentDepth
          /\ depthStack' =
                 IF rule = "deep-nesting" /\ IsNestingNode(ast[i])
                 THEN IF ev.enter
                      THEN Append(depthStack, [node |-> i, depth |-> currentDepth + 1])
                      ELSE IF depthStack = <<>> THEN depthStack ELSE Front(depthStack)
                 ELSE depthStack
          /\ ruleIssues' = Push(ruleIssues,
                  CASE rule = "long-function" /\ ev.enter ->
                          LongFunctionEnter(ast, i, File.path, Config)
                    [] rule = "async-no-try-catch" /\ ev.enter ->
                          AsyncEnter(ast, i, File.path)
                    [] rule = "deep-nesting" /\ ev.enter /\ IsNestingNode(ast[i]) ->
                          DeepNestingReport(ast, i, File.path, currentDepth + 1,
                                            MaxDepth(Config))
                    [] OTHER -> <<>>)
    /\ pos' = pos + 1
    /\ UNCHANGED <<earlier, files, configArg, pc, fileIdx, ruleIdx, ast, allIssues, issues, raised>>
    /\ UNCHANGED notAnalyzer

\* What rule.run returns once the traversal is over
RuleResult ==
    IF RULES[ruleIdx] = "unused-vars"
    THEN UnusedReport(declaredVars, ast, File.path)
    ELSE ruleIssues

\* analyzeFile: issues.push(...ruleIssues)
RuleReturn ==
    /\ pc = "run"
    /\ pos > Len(RuleEvents)
    /\ issues' = Push(issues, RuleResult)
    /\ ruleIdx' = ruleIdx + 1
    /\ pc' = "rules"
    /\ RuleLocalsDropped
    /\ UNCHANGED <<earlier, files, configArg, fileIdx, ast, allIssues, raised>>
    /\ UNCHANGED notAnalyzer

\* Mutant of RuleRaise: what the rule had collected before throwing is kept
RuleRaiseKeepsPartial ==
    /\ pc = "run"
    /\ pos <= Len(RuleEvents)
    /\ RuleThrows
    /\ issues' = Push(issues, ruleIssues)
    /\ ruleIdx' = ruleIdx + 1
    /\ pc' = "rules"
    /\ RuleLocalsDropped
    /\ UNCHANGED <<earlier, files, configArg, fileIdx, ast, allIssues, raised>>
    /\ UNCHANGED notAnalyzer

\* analyzeFile: the rule throws, the catch logs it and the loop goes on with
\* the next rule; what the rule had collected dies with its call
RuleRaise ==
    /\ pc = "run"
    /\ pos <= Len(RuleEvents)
    /\ RuleThrows
    /\ issues' = issues
    /\ ruleIdx' = ruleIdx + 1
    /\ pc' = "rules"
    /\ RuleLocalsDropped
    /\ UNCHANGED <<earlier, files, configArg, fileIdx, ast, allIssues, raised>>
    /\ UNCHANGED notAnalyzer

\* Mutant of FileReturn: the issues of a file replace those collected before it
FileReturnReplaces ==
    /\ pc = "rules"
    /\ ruleIdx > Len(RULES)
    /\ allIssues' = issues
    /\ fileIdx' = fileIdx + 1
    /\ pc' = "loop"
    /\ ruleIdx' = 0
    /\ ast' = <<>>
    /\ issues' = <<>>
    /\ UNCHANGED <<earlier, files, configArg, pos, ruleIssues, declaredVars, currentDepth,
                   depthStack, raised>>
    /\ UNCHANGED notAnalyzer

\* analyzeFiles: allIssues.push(...issues) after analyzeFile returned
FileReturn ==
    /\ pc = "rules"
    /\ ruleIdx > Len(RULES)
    /\ allIssues' = Push(allIssues, issues)
    /\ fileIdx' = fileIdx + 1
    /\ pc' = "loop"
    /\ ruleIdx' = 0
    /\ ast' = <<>>
    /\ issues' = <<>>
    /\ UNCHANGED <<earlier, files, configArg, pos, ruleIssues, declaredVars, currentDepth,
                   depthStack, raised>>
    /\ UNCHANGED notAnalyzer

\* analyzeFiles: return allIssues
Return ==
    /\ pc = "loop"
    /\ fileIdx > Len(files)
    /\ pc' = "done"
    /\ UNCHANGED <<earlier, files, configArg, fileIdx, ruleIdx, pos, ast, allIssues, issues,
                   ruleIssues, declaredVars, currentDepth, depthStack, raised>>
    /\ UNCHANGED notAnalyzer

\* analyzeFiles is called once more, with the same config, on the first k
\* files of the list it has just analysed or on the files after them
AnalyzeAgain ==
    /\ pc = "done"
    /\ earlier = <<>>
    /\ \E k \in 0..Len(files), first \in BOOLEAN :
          /\ earlier' = <<[files |-> files, split |-> k, result |-> allIssues]>>
          /\ files' = IF first THEN SubSeq(files, 1, k)
                       ELSE SubSeq(files, k + 1, Len(files))
    /\ pc' = "loop"
    /\ fileIdx' = 1
    /\ ruleIdx' = 0
    /\ ast' = <<>>
    /\ allIssues' = <<>>
    /\ issues' = <<>>
    /\ raised' = FALSE
    /\ RuleLocalsDropped
    /\ UNCHANGED configArg
    /\ UNCHANGED notAnalyzer

Next ==
    \/ ParseOk
    \/ ParseFail
    \/ RuleStart
    \/ Visit
    \/ RuleReturn
    \/ RuleRaise
    \/ FileReturn
    \/ Return

\* analyzeFiles, and the caller that calls it a second time
NextAgain ==
    \/ Next
    \/ AnalyzeAgain

----------------------------------------------------------------------------
(* trimForTokens.  Strings are sequences of one-character strings. *)

sBlockOpen == <<"/", "*">>
sBlockClose == <<"*", "/">>
sLineComment == <<"/", "/">>
sImport == <<"i", "m", "p", "o", "r", "t", " ">>
sRequire == <<"r", "e", "q", "u", "i", "r", "e", "(">>
sExportInterface == <<"e", "x", "p", "o", "r", "t", " ", "i", "n", "t", "e", "r", "f", "a", "c", "e", " ">>
sExportType == <<"e", "x", "p", "o", "r", "t", " ", "t", "y", "p", "e", " ">>
sInterface == <<"i", "n", "t", "e", "r", "f", "a", "c", "e", " ">>
sType == <<"t", "y", "p", "e", " ">>
sExportSp == <<"e", "x", "p", "o", "r", "t", " ">>
sExport == <<"e", "x", "p", "o", "r", "t">>
sAsync == <<"a", "s", "y", "n", "c">>
sFunction == <<"f", "u", "n", "c", "t", "i", "o", "n">>
sConst == <<"c", "o", "n", "s", "t">>
sArrow == <<"=", ">">>
sMoreImports == <<" ", "m", "o", "r", "e", " ", "i", "m", "p", "o", "r", "t", "s">>
sMoreFunctions == <<" ", "m", "o", "r", "e", " ", "f", "u", "n", "c", "t", "i", "o", "n", "s">>
sAnd == <<"/", "/", " ", ".", ".", ".", " ", "a", "n", "d", " ">>
TruncationMarker == <<"\n", "\n", "/", "/", " ", ".", ".", ".", " ", "t", "r", "u", "n", "c", "a", "t", "e", "d", " ", ".", ".", ".">>

WordChars == {"a", "b", "c", "d", "e", "f", "g", "h", "i", "j", "k", "l", "m", "n", "o", "p", "q", "r", "s", "t", "u", "v", "w", "x", "y", "z", "A", "B", "C", "D", "E", "F", "G", "H", "I", "J", "K", "L", "M", "N", "O", "P", "Q", "R", "S", "T", "U", "V", "W", "X", "Y", "Z", "0", "1", "2", "3", "4", "5", "6", "7", "8", "9", "_"}
SpaceChars == {" ", "\t", "\r", "\n"}

\* Number to its decimal digits, as template literals print it
RECURSIVE ToDigits(_)
ToDigits(n) ==
    LET d == <<"0", "1", "2", "3", "4", "5", "6", "7", "8", "9">> IN
    IF n < 10 THEN <<d[n + 1]>> ELSE ToDigits(n \div 10) \o <<d[(n % 10) + 1]>>

\* String.prototype.split('\n')
SplitLines(s, cur) ==
    LET breaks == {i \in 1..Len(s) : s[i] = "\n"}
        \* the position of the k-th line break; 0 and Len(s) + 1 bound the text
        BreakAt(k) == IF k = 0 THEN 0
                      ELSE IF k > Cardinality(breaks) THEN Len(s) + 1
                      ELSE CHOOSE i \in breaks : Cardinality({j \in breaks : j < i}) = k - 1
    IN [k \in 1..(Cardinality(breaks) + 1) |->
           (IF k = 1 THEN cur ELSE <<>>) \o SubSeq(s, BreakAt(k - 1) + 1, BreakAt(k) - 1)]

\* Array.prototype.join('\n')
RECURSIVE JoinLines(_)
JoinLines(parts) ==
    IF parts = <<>> THEN <<>>
    ELSE IF Len(parts) = 1 THEN parts[1]
    ELSE parts[1] \o <<"\n">> \o JoinLines(Tail(parts))

\* String.prototype.trim
RECURSIVE TrimLeft(_)
TrimLeft(s) == IF s # <<>> /\ Head(s) \in SpaceChars THEN TrimLeft(Tail(s)) ELSE s
RECURSIVE TrimRight(_)
TrimRight(s) == IF s # <<>> /\ Last(s) \in SpaceChars THEN TrimRight(Front(s)) ELSE s
TrimWs(s) == TrimRight(TrimLeft(s))

\* String.prototype.includes
Includes(s, sub) == \E i \in 1..(Len(s) - Len(sub) + 1) : SubSeq(s, i, i + Len(sub) - 1) = sub

\* (line.match(/c/g) || []).length
CountChar(s, c) == Cardinality({i \in 1..Len(s) : s[i] = c})

\* String.prototype.substring(0, end): a negative end counts as 0
Substring0(s, end) == SubSeq(s, 1, IF end < 0 THEN 0 ELSE IF end > Len(s) THEN Len(s) ELSE end)

\* Mutant of Slice0: the whole array, whatever the limit
SliceAll(seq, n) == seq

\* Array.prototype.slice(0, n)
Slice0(seq, n) == SubSeq(seq, 1, IF n > Len(seq) THEN Len(seq) ELSE n)

\* The literal at position i of s
LitAt(s, i, lit) == i + Len(lit) - 1 <= Len(s) /\ SubSeq(s, i, i + Len(lit) - 1) = lit

\* The position after the longest run of characters of S that starts at i
RECURSIVE SkipRun(_, _, _)
SkipRun(s, i, S) == IF i <= Len(s) /\ s[i] \in S THEN SkipRun(s, i + 1, S) ELSE i

\* The positions at which `(lit\s+)?` can end when it starts at i
AfterOptionalWord(s, i, lit) ==
    {i} \cup (IF LitAt(s, i, lit) /\ SkipRun(s, i + Len(lit), SpaceChars) > i + Len(lit)
              THEN (i + Len(lit) + 1)..SkipRun(s, i + Len(lit), SpaceChars)
              ELSE {})

\* /^(export\s+)?(async\s+)?function\s+\w+/
MatchesFunction(s) ==
    \E i \in AfterOptionalWord(s, 1, sExport) :
    \E j \in AfterOptionalWord(s, i, sAsync) :
        /\ LitAt(s, j, sFunction)
        /\ LET k == SkipRun(s, j + Len(sFunction), SpaceChars) IN
           /\ k > j + Len(sFunction)
           /\ k <= Len(s) /\ s[k] \in WordChars

\* /^(export\s+)?const\s+\w+\s*=.*=>/
MatchesArrowConst(s) ==
    \E i \in AfterOptionalWord(s, 1, sExport) :
        /\ LitAt(s, i, sConst)
        /\ LET k == SkipRun(s, i + Len(sConst), SpaceChars)
               w == SkipRun(s, k, WordChars)
           IN /\ k > i + Len(sConst)
              /\ w > k
              \* \w+ and \s* are followed by a character that is in neither class
              /\ LET q == SkipRun(s, w, SpaceChars) IN
                 /\ LitAt(s, q, <<"=">>)
                 /\ \E a \in (q + 1)..Len(s) : LitAt(s, a, sArrow)

CharsPerToken == 4
MaxCharsFor(tokens) == tokens * CharsPerToken

\* A text of exactly maxChars characters taken as too long
FitsStrictly(s, maxChars) == Len(s) < maxChars

\* text.length <= maxChars
Fits(s, maxChars) == Len(s) <= maxChars

\* inBlockComment after the two updates at the head of the loop body
BlockCommentAfter(t, inBlock) ==
    LET opened == IF StartsWith(t, sBlockOpen) THEN TRUE ELSE inBlock
    IN IF Includes(t, sBlockClose) THEN FALSE ELSE opened

\* The bucket the loop body puts a line in, or "none"
Bucket(t, inBlock, nComments) ==
    IF (StartsWith(t, sLineComment) \/ inBlock) /\ nComments < 3 THEN "comment"
    ELSE IF StartsWith(t, sImport) \/ StartsWith(t, sRequire) THEN "import"
    ELSE IF \/ StartsWith(t, sExportInterface) \/ StartsWith(t, sExportType)
            \/ StartsWith(t, sInterface) \/ StartsWith(t, sType) THEN "type"
    ELSE IF MatchesFunction(t) \/ MatchesArrowConst(t) THEN "signature"
    ELSE "none"

\* The parts pushed after the loop, before parts.join('\n')
Parts(cs, im, ty, fs) ==
    (IF Len(cs) > 0 THEN <<JoinLines(cs)>> ELSE <<>>)
    \o (IF Len(im) > 0
        THEN <<JoinLines(Slice0(im, 10))>>
             \o (IF Len(im) > 10
                 THEN <<sAnd \o ToDigits(Len(im) - 10) \o sMoreImports>> ELSE <<>>)
        ELSE <<>>)
    \o (IF Len(ty) > 0 THEN <<<<>>, JoinLines(Slice0(ty, 5))>> ELSE <<>>)
    \o (IF Len(fs) > 0
        THEN <<<<>>, JoinLines(Slice0(fs, 8))>>
             \o (IF Len(fs) > 8
                 THEN <<sAnd \o ToDigits(Len(fs) - 8) \o sMoreFunctions>> ELSE <<>>)
        ELSE <<>>)

Reassembled == JoinLines(Parts(comments, imports, typeDeclarations, functionSignatures))

\* Variant of TrimFits: the text that fits is returned with a line break added
TrimFitsAddsLineBreak ==
    /\ tpc = "call"
    /\ Fits(text, MaxCharsFor(maxTokens))
    /\ trimmed' = text \o <<"\n">>
    /\ tpc' = "done"
    /\ UNCHANGED <<text, maxTokens, previous>>
    /\ UNCHANGED trimLocals
    /\ UNCHANGED notTrim

\* trimForTokens: the text fits and is returned as it is
TrimFits ==
    /\ tpc = "call"
    /\ Fits(text, MaxCharsFor(maxTokens))
    /\ trimmed' = text
    /\ tpc' = "done"
    /\ UNCHANGED <<text, maxTokens, previous>>
    /\ UNCHANGED trimLocals
    /\ UNCHANGED notTrim

\* trimForTokens: the text does not fit and is split into lines
TrimSplit ==
    /\ tpc = "call"
    /\ ~Fits(text, MaxCharsFor(maxTokens))
    /\ lines' = SplitLines(text, <<>>)
    /\ lineIdx' = 1
    /\ tpc' = "scan"
    /\ UNCHANGED <<text, maxTokens, trimmed, previous, comments, imports, typeDeclarations,
                   functionSignatures, exports, inBlockComment, inFunction, braceDepth>>
    /\ UNCHANGED notTrim

\* trimForTokens: the body of the loop over the lines, for one line
TrimScan ==
    /\ tpc = "scan"
    /\ lineIdx <= Len(lines)
    /\ LET line == lines[lineIdx]
           t == TrimWs(line)
           inBlock == BlockCommentAfter(t, inBlockComment)
           bucket == Bucket(t, inBlock, Len(comments))
           depth == braceDepth + CountChar(line, "{") - CountChar(line, "}")
       IN /\ inBlockComment' = inBlock
          /\ comments' = IF bucket = "comment" THEN Push(comments, <<line>>) ELSE comments
          /\ imports' = IF bucket = "import" THEN Push(imports, <<line>>) ELSE imports
          /\ typeDeclarations' =
                IF bucket = "type" THEN Push(typeDeclarations, <<line>>)
                ELSE typeDeclarations
          /\ functionSignatures' =
                IF bucket = "signature" THEN Push(functionSignatures, <<line>>)
                ELSE functionSignatures
          /\ braceDepth' =
                IF bucket = "signature" THEN 0
                ELSE IF bucket = "none" /\ inFunction THEN depth
                ELSE braceDepth
          /\ inFunction' =
                IF bucket = "signature" THEN TRUE
                ELSE IF bucket = "none" /\ inFunction /\ depth = 0 THEN FALSE
                ELSE inFunction
          /\ exports' =
                IF bucket = "none" /\ StartsWith(t, sExportSp) /\ Len(exports) < 5
                THEN Push(exports, <<line>>)
                ELSE exports
    /\ lineIdx' = lineIdx + 1
    /\ UNCHANGED <<text, maxTokens, trimmed, tpc, previous, lines>>
    /\ UNCHANGED notTrim

\* Mutant of TrimReturn: the text itself is returned when its parts fit
TrimReturnsText ==
    /\ tpc = "scan"
    /\ lineIdx > Len(lines)
    /\ ~(Len(Reassembled) > MaxCharsFor(maxTokens))
    /\ trimmed' = text
    /\ tpc' = "done"
    /\ UNCHANGED <<text, maxTokens, previous>>
    /\ UNCHANGED trimLocals
    /\ UNCHANGED notTrim

\* trimForTokens: the reassembled parts fit and are returned
TrimReturn ==
    /\ tpc = "scan"
    /\ lineIdx > Len(lines)
    /\ ~(Len(Reassembled) > MaxCharsFor(maxTokens))
    /\ trimmed' = Reassembled
    /\ tpc' = "done"
    /\ UNCHANGED <<text, maxTokens, previous>>
    /\ UNCHANGED trimLocals
    /\ UNCHANGED notTrim

\* Variant of TrimHardCut: the marker is appended to the whole reassembled text
TrimHardCutKeepsAll ==
    /\ tpc = "scan"
    /\ lineIdx > Len(lines)
    /\ Len(Reassembled) > MaxCharsFor(maxTokens)
    /\ trimmed' = Reassembled \o TruncationMarker
    /\ tpc' = "done"
    /\ UNCHANGED <<text, maxTokens, previous>>
    /\ UNCHANGED trimLocals
    /\ UNCHANGED notTrim

\* trimForTokens: the reassembled parts are still too long and are cut
TrimHardCut ==
    /\ tpc = "scan"
    /\ lineIdx > Len(lines)
    /\ Len(Reassembled) > MaxCharsFor(maxTokens)
    /\ trimmed' = Substring0(Reassembled, MaxCharsFor(maxTokens) - 20) \o TruncationMarker
    /\ tpc' = "done"
    /\ UNCHANGED <<text, maxTokens, previous>>
    /\ UNCHANGED trimLocals
    /\ UNCHANGED notTrim

\* The caller hands the returned string to trimForTokens once more, with the
\* same budget
TrimAgain ==
    /\ tpc = "done"
    /\ previous = <<>>
    /\ previous' = <<[text |-> text, result |-> trimmed]>>
    /\ text' = trimmed
    /\ trimmed' = <<>>
    /\ tpc' = "call"
    /\ lines' = <<>>
    /\ lineIdx' = 0
    /\ comments' = <<>>
    /\ imports' = <<>>
    /\ typeDeclarations' = <<>>
    /\ functionSignatures' = <<>>
    /\ exports' = <<>>
    /\ inBlockComment' = FALSE
    /\ inFunction' = FALSE
    /\ braceDepth' = 0
    /\ UNCHANGED maxTokens
    /\ UNCHANGED notTrim

NextTrim ==
    \/ TrimAgain
    \/ TrimFits
    \/ TrimSplit
    \/ TrimScan
    \/ TrimReturn
    \/ TrimHardCut

----------------------------------------------------------------------------
(* buildContext: getTopIssues, extractDependencies, generateFileSummary.    *)
(* File paths and package names are sequences of one-character strings.     *)

LowerCase == <<"a", "b", "c", "d", "e", "f", "g", "h", "i", "j", "k", "l", "m", "n", "o", "p", "q", "r", "s", "t", "u", "v", "w", "x", "y", "z">>
UpperCase == <<"A", "B", "C", "D", "E", "F", "G", "H", "I", "J", "K", "L", "M", "N", "O", "P", "Q", "R", "S", "T", "U", "V", "W", "X", "Y", "Z">>
Digits == <<"0", "1", "2", "3", "4", "5", "6", "7", "8", "9">>

IndexIn(seq, x) == CHOOSE i \in 1..Len(seq) : seq[i] = x

\* The characters in the order of their UTF-16 code units, as far as texts use them
CodeUnits ==
    <<"\n", " ", "!", "(", ")", "*", "-", ".", "/">> \o Digits \o <<":", ";", "=", ">", "?", "@">>
    \o UpperCase \o <<"_">> \o LowerCase \o <<"{", "}">>

CodeUnitOf == [c \in Range(CodeUnits) |-> IndexIn(CodeUnits, c)]
CodeUnit(c) == CodeUnitOf[c]

\* The order in which collation ranks characters before it looks at their
\* case: punctuation, digits, letters
CollationOrder == <<"_", "-", ".", "/", "@">> \o Digits \o LowerCase

UpperCaseLetters == Range(UpperCase)

ToLower(c) == IF c \in UpperCaseLetters THEN LowerCase[IndexIn(UpperCase, c)] ELSE c

\* The rank of a character before its case is looked at
PrimaryRank ==
    [c \in Range(CollationOrder) \cup UpperCaseLetters |-> IndexIn(CollationOrder, ToLower(c))]

\* -1, 0 or 1 as sequence a of numbers comes before, with or after b
RECURSIVE CompareKeys(_, _)
CompareKeys(a, b) ==
    IF a = <<>> /\ b = <<>> THEN 0
    ELSE IF a = <<>> THEN -1
    ELSE IF b = <<>> THEN 1
    ELSE IF Head(a) < Head(b) THEN -1
    ELSE IF Head(a) > Head(b) THEN 1
    ELSE CompareKeys(Tail(a), Tail(b))

\* String.prototype.localeCompare: the letters decide without regard to case,
\* and between strings that differ in case only the lower case comes first
LocaleCompare(a, b) ==
    LET primary(str) == [i \in 1..Len(str) |-> PrimaryRank[str[i]]]
        tertiary(str) == [i \in 1..Len(str) |-> IF str[i] \in UpperCaseLetters THEN 1 ELSE 0]
        first == CompareKeys(primary(a), primary(b))
    IN IF first # 0 THEN first ELSE CompareKeys(tertiary(a), tertiary(b))

\* The comparison of strings that Array.prototype.sort() makes by default
CompareCodeUnits(a, b) ==
    CompareKeys([i \in 1..Len(a) |-> CodeUnit(a[i])], [i \in 1..Len(b) |-> CodeUnit(b[i])])

severityOrder == [error |-> 0, warning |-> 1, info |-> 2]

\* Variant of CompareIssues: the file path is not looked at
CompareSeverityOnly(a, b) == severityOrder[a.severity] - severityOrder[b.severity]

\* getTopIssues: the function handed to sort
CompareIssues(a, b) ==
    LET severityDiff == severityOrder[a.severity] - severityOrder[b.severity]
    IN IF severityDiff # 0 THEN severityDiff ELSE LocaleCompare(a.file, b.file)

\* Array.prototype.sort(compare) with CompareIssues: a stable sort
RECURSIVE InsertIssue(_, _)
InsertIssue(sorted, x) ==
    IF sorted = <<>> THEN <<x>>
    ELSE IF CompareIssues(Last(sorted), x) <= 0 THEN Append(sorted, x)
    ELSE Append(InsertIssue(Front(sorted), x), Last(sorted))

RECURSIVE SortIssues(_)
SortIssues(seq) ==
    IF seq = <<>> THEN <<>> ELSE InsertIssue(SortIssues(Front(seq)), Last(seq))

\* Array.prototype.sort() of strings: by code units
RECURSIVE InsertName(_, _)
InsertName(sorted, x) ==
    IF sorted = <<>> THEN <<x>>
    ELSE IF CompareCodeUnits(Last(sorted), x) <= 0 THEN Append(sorted, x)
    ELSE Append(InsertName(Front(sorted), x), Last(sorted))

RECURSIVE SortNames(_)
SortNames(seq) ==
    IF seq = <<>> THEN <<>> ELSE InsertName(SortNames(Front(seq)), Last(seq))

TopCount == 5

sFrom == <<"f", "r", "o", "m", " ">>
sModuleExports == <<"m", "o", "d", "u", "l", "e", ".", "e", "x", "p", "o", "r", "t", "s">>
sClass == <<"c", "l", "a", "s", "s">>
sDefines == <<"D", "e", "f", "i", "n", "e", "s", " ">>
sAndExports == <<" ", "a", "n", "d", " ", "e", "x", "p", "o", "r", "t", "s">>
sFunctionality == <<" ", "f", "u", "n", "c", "t", "i", "o", "n", "a", "l", "i", "t", "y">>
sExportsModule == <<"E", "x", "p", "o", "r", "t", "s", " ", "m", "o", "d", "u", "l", "e", " ", "f", "u", "n", "c", "t", "i", "o", "n", "a", "l", "i", "t", "y">>
sImportsAndConfigures == <<"I", "m", "p", "o", "r", "t", "s", " ", "a", "n", "d", " ", "c", "o", "n", "f", "i", "g", "u", "r", "e", "s", " ", "d", "e", "p", "e", "n", "d", "e", "n", "c", "i", "e", "s">>
sContainsCode == <<"C", "o", "n", "t", "a", "i", "n", "s", " ", "c", "o", "d", "e", " ", "a", "n", "d", " ", "l", "o", "g", "i", "c">>
sUses == <<".", " ", "U", "s", "e", "s", " ">>
sExternalDependencies == <<" ", "e", "x", "t", "e", "r", "n", "a", "l", " ", "d", "e", "p", "e", "n", "d", "e", "n", "c", "i", "e", "s">>

\* Array.prototype.join(sep)
RECURSIVE JoinWith(_, _)
JoinWith(parts, sep) ==
    IF parts = <<>> THEN <<>>
    ELSE IF Len(parts) = 1 THEN parts[1]
    ELSE parts[1] \o sep \o JoinWith(Tail(parts), sep)

\* path.basename: what follows the last slash
RECURSIVE Basename(_)
Basename(path) ==
    IF \E i \in 1..Len(path) : path[i] = "/"
    THEN Basename(SubSeq(path, (CHOOSE i \in 1..Len(path) : path[i] = "/") + 1, Len(path)))
    ELSE path

DropFirst(str, n) == SubSeq(str, n + 1, Len(str))

\* line.replace(/^\/\*+\s*/, '')
StripBlockOpen(str) ==
    IF LitAt(str, 1, sBlockOpen)
    THEN DropFirst(str, SkipRun(str, SkipRun(str, 2, {"*"}), SpaceChars) - 1)
    ELSE str

\* The length of the run of stars that ends just before position i
RECURSIVE StarsBefore(_, _)
StarsBefore(str, i) == IF i > 1 /\ str[i - 1] = "*" THEN 1 + StarsBefore(str, i - 1) ELSE 0

\* line.replace(/\*+\/$/, '')
StripBlockCloseAtEnd(str) ==
    IF str # <<>> /\ Last(str) = "/" /\ StarsBefore(str, Len(str)) > 0
    THEN SubSeq(str, 1, Len(str) - 1 - StarsBefore(str, Len(str)))
    ELSE str

\* line.replace(/\*+\/.*$/, '')
StripFromBlockClose(str) ==
    LET closes == {i \in 1..Len(str) : str[i] = "/" /\ StarsBefore(str, i) > 0}
    IN IF closes = {} THEN str
       ELSE LET i == CHOOSE j \in closes : \A k \in closes : j <= k
            IN SubSeq(str, 1, i - 1 - StarsBefore(str, i))

\* line.replace(/^\*\s*/, '')
StripLeadingStar(str) ==
    IF LitAt(str, 1, <<"*">>) THEN DropFirst(str, SkipRun(str, 2, SpaceChars) - 1) ELSE str

\* line.replace(/^\/\/\s*/, '')
StripLineComment(str) ==
    IF LitAt(str, 1, sLineComment) THEN DropFirst(str, SkipRun(str, 3, SpaceChars) - 1)
    ELSE str

\* text.split(/[.!?]+/)
RECURSIVE SplitSentences(_, _)
SplitSentences(str, cur) ==
    IF str = <<>> THEN <<cur>>
    ELSE IF Head(str) \in {".", "!", "?"}
         THEN <<cur>> \o SplitSentences(DropFirst(str, SkipRun(str, 1, {".", "!", "?"}) - 1), <<>>)
    ELSE SplitSentences(Tail(str), Append(cur, Head(str)))

\* commentLines with the content pushed, if there is any that is no tag
PushContent(commentLines, content, tagsSkipped) ==
    IF content # <<>> /\ ~(tagsSkipped /\ StartsWith(content, <<"@">>))
    THEN Append(commentLines, content)
    ELSE commentLines

\* extractHeaderComment: the loop, from line i on
RECURSIVE HeaderScan(_, _, _, _)
HeaderScan(ls, i, inComment, commentLines) ==
    IF i > (IF Len(ls) < 15 THEN Len(ls) ELSE 15) THEN commentLines
    ELSE
    LET line == TrimWs(ls[i]) IN
    IF ~inComment /\ line = <<>> THEN HeaderScan(ls, i + 1, inComment, commentLines)
    ELSE IF StartsWith(line, sBlockOpen)
    THEN HeaderScan(ls, i + 1, TRUE,
            PushContent(commentLines, TrimWs(StripBlockCloseAtEnd(StripBlockOpen(line))), FALSE))
    ELSE IF inComment
    THEN IF Includes(line, sBlockClose)
         THEN PushContent(commentLines, TrimWs(StripLeadingStar(StripFromBlockClose(line))), TRUE)
         ELSE HeaderScan(ls, i + 1, TRUE,
                 PushContent(commentLines, TrimWs(StripLeadingStar(line)), TRUE))
    ELSE IF StartsWith(line, sLineComment)
    THEN HeaderScan(ls, i + 1, FALSE,
            PushContent(commentLines, TrimWs(StripLineComment(line)), FALSE))
    ELSE commentLines

\* extractHeaderComment: <<summary>>, or <<>> for null
ExtractHeaderComment(ls) ==
    LET commentLines == HeaderScan(ls, 1, FALSE, <<>>)
        sentences == SelectSeq([k \in DOMAIN SplitSentences(JoinWith(commentLines, <<" ">>), <<>>) |->
                                    TrimWs(SplitSentences(JoinWith(commentLines, <<" ">>), <<>>)[k])],
                               LAMBDA x : x # <<>>)
    IN IF Len(commentLines) > 0
       THEN <<JoinWith(Slice0(sentences, 3), <<".", " ">>) \o <<".">>>>
       ELSE <<>>

\* /^(export\s+)?class\s+\w+/
MatchesClass(str) ==
    \E i \in AfterOptionalWord(str, 1, sExport) :
        /\ LitAt(str, i, sClass)
        /\ LET k == SkipRun(str, i + Len(sClass), SpaceChars) IN
           /\ k > i + Len(sClass)
           /\ k <= Len(str) /\ str[k] \in WordChars

\* generateFileSummary
GenerateFileSummary(fileText, filePath) ==
    LET ls == SplitLines(fileText, <<>>)
        fileName == Basename(filePath)
        headerSummary == ExtractHeaderComment(ls)
        preview == Slice0(ls, 20)
        imported == SelectSeq(preview, LAMBDA l :
                        \/ StartsWith(TrimWs(l), sImport)
                        \/ StartsWith(TrimWs(l), sRequire)
                        \/ StartsWith(TrimWs(l), sFrom))
        exported == SelectSeq(preview, LAMBDA l :
                        Includes(l, sExportSp) \/ Includes(l, sModuleExports))
        declarations == SelectSeq(preview, LAMBDA l :
                        \/ MatchesFunction(TrimWs(l))
                        \/ MatchesClass(TrimWs(l))
                        \/ MatchesArrowConst(TrimWs(l)))
        funcOrClass == IF Includes(declarations[1], sClass) THEN sClass ELSE sFunction
        what == IF Len(declarations) > 0
                THEN sDefines \o funcOrClass
                     \o (IF Len(exported) > 0 THEN sAndExports ELSE <<>>)
                     \o sFunctionality
                ELSE IF Len(exported) > 0 THEN sExportsModule
                ELSE IF Len(imported) > 0 THEN sImportsAndConfigures
                ELSE sContainsCode
        uses == IF Len(imported) > 2
                THEN sUses \o ToDigits(Len(imported)) \o sExternalDependencies
                ELSE <<>>
    IN IF headerSummary # <<>> THEN headerSummary[1]
       ELSE fileName \o <<":", " ">> \o what \o uses \o <<".">>

\* getTopIssues: the array sorted in place
SortedInPlace(list) == SortIssues(list)

\* getTopIssues: .slice(0, count) of the sorted array
GetTopIssues(sortedList, count) == Slice0(sortedList, count)

sTypescript == <<"t", "y", "p", "e", "s", "c", "r", "i", "p", "t">>
sEslint == <<"e", "s", "l", "i", "n", "t">>
sJest == <<"j", "e", "s", "t">>
sPrettier == <<"p", "r", "e", "t", "t", "i", "e", "r">>
sTypes == <<"@", "t", "y", "p", "e", "s", "/">>

\* extractDependencies: excluded
excluded == {sTypescript, sEslint, sJest, sPrettier, sTypes}

DependencyLimit == 15

\* What is at <projectRoot>/package.json: nothing, a file that cannot be
\* read, a text that JSON.parse rejects, the text "null", or an object with
\* its dependencies and devDependencies (each <<>> when the key is not there,
\* else <<keys>>, the keys in the order of the text)
Manifest(kind, deps, devDeps) == [kind |-> kind, dependencies |-> deps, devDependencies |-> devDeps]

\* Set.prototype.add for each of the names: insertion order, no name twice
RECURSIVE AddAll(_, _)
AddAll(set, names) ==
    IF names = <<>> THEN set
    ELSE AddAll(IF Head(names) \in Range(set) THEN set ELSE Append(set, Head(names)), Tail(names))

\* Variant of Important: the tooling names and the type packages are kept
ImportantAll(deps) == deps

\* extractDependencies: the filter on the names
Important(deps) ==
    SelectSeq(deps, LAMBDA dep : dep \notin excluded /\ ~StartsWith(dep, sTypes))

\* extractDependencies, when the file is read and parsed to an object
ExtractDependencies(m) ==
    LET runtime == IF m.dependencies # <<>> THEN AddAll(<<>>, m.dependencies[1]) ELSE <<>>
        deps == IF m.devDependencies # <<>> THEN AddAll(runtime, m.devDependencies[1])
                ELSE runtime
    IN Slice0(SortNames(Important(deps)), DependencyLimit)

\* readFile or JSON.parse throws, or a property of null is read
ManifestFails(m) == m.kind \in {"missing", "unreadable", "invalid", "null"}

\* projectRoot ? ... : ...  (the empty string counts as not given)
HasRoot(root) == root # <<>> /\ root[1] # <<>>

\* buildContext: files.map(...)
CtxSummaries ==
    /\ cpc = "call"
    /\ fileSummaries' = [k \in 1..Len(ctxFiles) |->
                            [path |-> ctxFiles[k].path,
                             brief |-> GenerateFileSummary(ctxFiles[k].text, ctxFiles[k].path)]]
    /\ cpc' = "top"
    /\ UNCHANGED <<ctxFiles, ctxIssues, issuesAtCall, projectRoot, manifest, topIssues,
                   dependencies, context>>
    /\ UNCHANGED notContext

\* buildContext: getTopIssues(issues, 5)
CtxTopIssues ==
    /\ cpc = "top"
    /\ ctxIssues' = SortedInPlace(ctxIssues)
    /\ topIssues' = GetTopIssues(ctxIssues', TopCount)
    /\ cpc' = "deps"
    /\ UNCHANGED <<ctxFiles, issuesAtCall, projectRoot, manifest, fileSummaries,
                   dependencies, context>>
    /\ UNCHANGED notContext

\* buildContext: no projectRoot, no dependencies
CtxNoRoot ==
    /\ cpc = "deps"
    /\ ~HasRoot(projectRoot)
    /\ dependencies' = <<>>
    /\ cpc' = "return"
    /\ UNCHANGED <<ctxFiles, ctxIssues, issuesAtCall, projectRoot, manifest, fileSummaries,
                   topIssues, context>>
    /\ UNCHANGED notContext

\* Variant of CtxNoManifest: the exception leaves buildContext
CtxNoManifestRaises ==
    /\ cpc = "deps"
    /\ HasRoot(projectRoot)
    /\ ManifestFails(manifest)
    /\ cpc' = "raised"
    /\ UNCHANGED <<ctxFiles, ctxIssues, issuesAtCall, projectRoot, manifest, fileSummaries,
                   topIssues, dependencies, context>>
    /\ UNCHANGED notContext

\* extractDependencies: the catch
CtxNoManifest ==
    /\ cpc = "deps"
    /\ HasRoot(projectRoot)
    /\ ManifestFails(manifest)
    /\ dependencies' = <<>>
    /\ cpc' = "return"
    /\ UNCHANGED <<ctxFiles, ctxIssues, issuesAtCall, projectRoot, manifest, fileSummaries,
                   topIssues, context>>
    /\ UNCHANGED notContext

\* extractDependencies: the names of package.json
CtxDependencies ==
    /\ cpc = "deps"
    /\ HasRoot(projectRoot)
    /\ ~ManifestFails(manifest)
    /\ dependencies' = ExtractDependencies(manifest)
    /\ cpc' = "return"
    /\ UNCHANGED <<ctxFiles, ctxIssues, issuesAtCall, projectRoot, manifest, fileSummaries,
                   topIssues, context>>
    /\ UNCHANGED notContext

\* buildContext: return
CtxReturn ==
    /\ cpc = "return"
    /\ context' = <<[files |-> fileSummaries, topIssues |-> topIssues,
                     dependencies |-> dependencies]>>
    /\ cpc' = "done"
    /\ UNCHANGED <<ctxFiles, ctxIssues, issuesAtCall, projectRoot, manifest, fileSummaries,
                   topIssues, dependencies>>
    /\ UNCHANGED notContext

NextContext ==
    \/ CtxSummaries
    \/ CtxTopIssues
    \/ CtxNoRoot
    \/ CtxNoManifest
    \/ CtxDependencies
    \/ CtxReturn

----------------------------------------------------------------------------
(* buildPrompt.  A string here is a sequence of pieces: single characters,  *)
(* and runs of characters inside which no pattern of the replace calls can  *)
(* start or end (the text of the template between its placeholders, and the *)
(* placeholders themselves).                                                *)

sPromptHead == "You are an expert software engineer reviewing code quality issues.\n\nGiven the project context and the following static analysis issue, explain:\n\n1) What the problem is in plain language.\n2) Why it matters (bugs, maintainability, security, performance).\n3) Concrete step-by-step remediation *in words only* (no code, no diffs).\n\nContext: "
sPromptIssue == "\n\nIssue: "
sPromptLine == " line "
sPromptDash == " - "     \* an em dash between two spaces in the source
sPromptConstraints == "\n\nConstraints: DO NOT produce any code, code suggestions, or patches. Output only plain-text explanations and numbered remediation steps."

phContextSummary == "{{contextSummary}}"
phFile == "{{issue.file}}"
phLine == "{{issue.line}}"
phRuleId == "{{issue.ruleId}}"
phMessage == "{{issue.message}}"

EXPLAIN_ISSUE_PROMPT ==
    <<sPromptHead, phContextSummary, sPromptIssue, phFile, sPromptLine, phLine,
      sPromptDash, phRuleId, sPromptDash, phMessage, sPromptConstraints>>

\* The replacement string as String.prototype.replace expands it for a string
\* pattern: $$ is a dollar sign, $& the matched text, $ and a grave accent
\* the text before the match, $' the text after it; any other character
\* stands for itself
\* The piece that stands for the grave accent character
chGrave == "[grave accent]"

RECURSIVE ExpandReplacement(_, _, _, _)
ExpandReplacement(replacement, matched, before, after) ==
    IF replacement = <<>> THEN <<>>
    ELSE IF Head(replacement) = "$" /\ Len(replacement) > 1
                /\ replacement[2] \in {"$", "&", chGrave, "'"}
         THEN (CASE replacement[2] = "$" -> <<"$">>
                 [] replacement[2] = "&" -> matched
                 [] replacement[2] = chGrave -> before
                 [] replacement[2] = "'" -> after)
              \o ExpandReplacement(Tail(Tail(replacement)), matched, before, after)
         ELSE <<Head(replacement)>>
              \o ExpandReplacement(Tail(replacement), matched, before, after)

\* The first position at which the pattern (one piece) stands, 0 when nowhere
FirstIndexOf(str, pattern) ==
    IF \E i \in 1..Len(str) : str[i] = pattern
    THEN CHOOSE i \in 1..Len(str) : str[i] = pattern /\ \A j \in 1..(i - 1) : str[j] # pattern
    ELSE 0

\* String.prototype.replace(pattern, replacement) with a string pattern: the
\* first occurrence only
StringReplace(str, pattern, replacement) ==
    LET i == FirstIndexOf(str, pattern) IN
    IF i = 0 THEN str
    ELSE LET before == SubSeq(str, 1, i - 1)
             after == SubSeq(str, i + 1, Len(str))
         IN before \o ExpandReplacement(replacement, <<pattern>>, before, after) \o after

\* The placeholders in the order of the chain of replace calls, and the value
\* each call passes
Placeholders == <<phContextSummary, phFile, phLine, phRuleId, phMessage>>

PromptValues(issue, contextSummary) ==
    <<contextSummary, issue.file, ToDigits(issue.line), issue.ruleId, issue.message>>

PromptIdle ==
    /\ promptIssue = <<>>
    /\ promptContext = <<>>
    /\ prompt = <<>>
    /\ ppc = 0

\* buildPrompt is entered: the chain starts from the template
PromptStart ==
    /\ prompt = EXPLAIN_ISSUE_PROMPT
    /\ ppc = 1

\* buildPrompt: the next .replace(placeholder, value) of the chain
PromptReplace ==
    /\ ppc \in 1..Len(Placeholders)
    /\ prompt' = StringReplace(prompt, Placeholders[ppc],
                               PromptValues(promptIssue[1], promptContext)[ppc])
    /\ ppc' = ppc + 1
    /\ UNCHANGED <<promptIssue, promptContext>>
    /\ UNCHANGED notPrompt

\* buildPrompt has returned
PromptDone == ppc = Len(Placeholders) + 1

NextPrompt == PromptReplace

----------------------------------------------------------------------------
(* AIDebuggerTreeProvider *)

\* setIssues: the function handed to sort
CompareSeverity(a, b) == severityOrder[a.severity] - severityOrder[b.severity]

\* Array.prototype.sort(compare) with CompareSeverity: a stable sort
RECURSIVE InsertBySeverity(_, _)
InsertBySeverity(sorted, x) ==
    IF sorted = <<>> THEN <<x>>
    ELSE IF CompareSeverity(Last(sorted), x) <= 0 THEN Append(sorted, x)
    ELSE Append(InsertBySeverity(Front(sorted), x), Last(sorted))

RECURSIVE SortBySeverity(_)
SortBySeverity(seq) ==
    IF seq = <<>> THEN <<>> ELSE InsertBySeverity(SortBySeverity(Front(seq)), Last(seq))

\* getChildren: the item made for an issue
IssueItem(issue) ==
    [issue |-> issue, label |-> issue.ruleId,
     description |-> [file |-> issue.file, line |-> issue.line]]

\* The provider as its constructor leaves it
SidebarNew ==
    /\ treeIssues = <<>>
    /\ setArg = <<>>
    /\ setArgAtCall = <<>>
    /\ children = <<>>
    /\ setCalls = 0

\* Mutant of SetIssues: the array passed in is sorted itself and kept
SetIssuesSortsArgument(list) ==
    /\ treeIssues' = SortBySeverity(list)
    /\ setArg' = SortBySeverity(list)
    /\ setArgAtCall' = list
    /\ children' = <<>>
    /\ setCalls' = setCalls + 1

\* setIssues(issues): a copy of the array is sorted and kept
SetIssues(list) ==
    /\ treeIssues' = SortBySeverity(list)
    /\ setArg' = list
    /\ setArgAtCall' = list
    /\ children' = <<>>
    /\ setCalls' = setCalls + 1

\* getChildren(element): nothing under an item, an item per issue at the root
GetChildren(element) ==
    /\ children' = <<[element |-> element,
                      items |-> IF element # <<>> THEN <<>>
                                ELSE [k \in 1..Len(treeIssues) |-> IssueItem(treeIssues[k])]]>>
    /\ UNCHANGED <<treeIssues, setArg, setArgAtCall, setCalls>>

----------------------------------------------------------------------------
(* DiagnosticsManager *)

\* vscode.Uri.file(path): the path of a file URI starts with a slash
UriFile(path) ==
    [scheme |-> "file", path |-> IF StartsWith(path, <<"/">>) THEN path ELSE <<"/">> \o path]

\* uri.toString(): the scheme, "://" and the path, with the characters a URI
\* reserves written as percent escapes
RECURSIVE EncodePath(_)
EncodePath(s) ==
    IF s = <<>> THEN <<>>
    ELSE (CASE s[1] = " " -> <<"%", "2", "0">>
            [] s[1] = "%" -> <<"%", "2", "5">>
            [] OTHER -> <<s[1]>>) \o EncodePath(Tail(s))

sFileScheme == <<"f", "i", "l", "e", ":", "/", "/">>
UriToString(uri) == sFileScheme \o EncodePath(uri.path)

\* vscode.Uri.parse(string): the escapes are read back
RECURSIVE DecodePath(_)
DecodePath(s) ==
    IF s = <<>> THEN <<>>
    ELSE IF StartsWith(s, <<"%", "2", "0">>) THEN <<" ">> \o DecodePath(SubSeq(s, 4, Len(s)))
    ELSE IF StartsWith(s, <<"%", "2", "5">>) THEN <<"%">> \o DecodePath(SubSeq(s, 4, Len(s)))
    ELSE <<s[1]>> \o DecodePath(Tail(s))

UriParse(s) == [scheme |-> "file", path |-> DecodePath(SubSeq(s, Len(sFileScheme) + 1, Len(s)))]

\* updateDiagnostics: the loop that groups the issues by file, on the map m
RECURSIVE GroupInto(_, _)
GroupInto(m, list) ==
    IF list = <<>> THEN m
    ELSE LET issue == list[1]
             fileUriStr == UriToString(UriFile(issue.file))
             has == \E k \in 1..Len(m) : m[k].key = fileUriStr
             withKey == IF has THEN m ELSE Append(m, [key |-> fileUriStr, value |-> <<>>])
         IN GroupInto([k \in 1..Len(withKey) |->
                          IF withKey[k].key = fileUriStr
                          THEN [key |-> fileUriStr, value |-> Append(withKey[k].value, issue)]
                          ELSE withKey[k]],
                      Tail(list))

\* Math.max(0, n)
MathMax0(n) == IF n > 0 THEN n ELSE 0

mapSeverity == [error |-> "Error", warning |-> "Warning", info |-> "Information"]

\* getTagsForRule(ruleId)
GetTagsForRule(ruleId) == IF ruleId = "unused-var" THEN <<"Unnecessary">> ELSE <<>>

\* issueToDiagnostic(issue)
IssueToDiagnostic(issue) ==
    [range |-> [start |-> [line |-> issue.line - 1, character |-> MathMax0(issue.column - 1)],
                end |-> [line |-> issue.line - 1, character |-> MathMax0(issue.column)]],
     message |-> issue.message,
     severity |-> mapSeverity[issue.severity],
     source |-> issue.ruleId,
     code |-> issue.ruleId,
     tags |-> GetTagsForRule(issue.ruleId)]

\* updateDiagnostics: the loop that sets the diagnostics of each file of the map
DiagnosticsOf(m) ==
    [k \in 1..Len(m) |->
        [uri |-> UriParse(m[k].key),
         diagnostics |-> [j \in 1..Len(m[k].value) |-> IssueToDiagnostic(m[k].value[j])]]]

\* The manager as its constructor leaves it
DiagNew ==
    /\ issuesMap = <<>>
    /\ diagnosticCollection = <<>>
    /\ lastDiag = <<>>
    /\ diagCalls = 0

\* Mutant of UpdateDiagnostics: the map is not cleared first
UpdateDiagnosticsKeepsMap(list) ==
    /\ issuesMap' = GroupInto(issuesMap, list)
    /\ diagnosticCollection' = DiagnosticsOf(GroupInto(issuesMap, list))
    /\ lastDiag' = <<[op |-> "update", issues |-> list]>>
    /\ diagCalls' = diagCalls + 1

\* updateDiagnostics(issues)
UpdateDiagnostics(list) ==
    /\ issuesMap' = GroupInto(<<>>, list)
    /\ diagnosticCollection' = DiagnosticsOf(GroupInto(<<>>, list))
    /\ lastDiag' = <<[op |-> "update", issues |-> list]>>
    /\ diagCalls' = diagCalls + 1

\* clear()
ClearDiagnostics ==
    /\ issuesMap' = <<>>
    /\ diagnosticCollection' = <<>>
    /\ lastDiag' = <<[op |-> "clear", issues |-> <<>>]>>
    /\ diagCalls' = diagCalls + 1

\* getIssuesForFile(fileUri): this.issuesMap.get(fileUri.toString()) || []
GetIssuesForFile(fileUri) ==
    LET found == SelectSeq(issuesMap, LAMBDA e : e.key = UriToString(fileUri))
    IN IF found = <<>> THEN <<>> ELSE found[1].value

----------------------------------------------------------------------------
(* ExplanationPanel *)

\* getMockedExplanation: the entries of mockData, each told by its impact text
mockData ==
    [k \in {"unused-var", "long-function", "async-no-try-catch", "deep-nesting"} |->
        CASE k = "unused-var" ->
                [key |-> k, impact |-> "Unused variables clutter code, reduce readability, and can indicate incomplete refactoring or forgotten logic. They increase cognitive load for maintainers."]
          [] k = "long-function" ->
                [key |-> k, impact |-> "Long functions are harder to understand, test, and maintain. They often have multiple responsibilities and hidden bugs."]
          [] k = "async-no-try-catch" ->
                [key |-> k, impact |-> "Without error handling, unhandled promise rejections can crash your application or leave it in an inconsistent state."]
          [] OTHER ->
                [key |-> k, impact |-> "Deeply nested code is harder to follow, increases cyclomatic complexity, and makes testing more difficult."]]

\* getMockedExplanation(issue): mockData[issue.ruleId] || { the generic text }
GetMockedExplanation(issue) ==
    IF issue.ruleId \in DOMAIN mockData THEN mockData[issue.ruleId]
    ELSE [key |-> "", impact |-> "This issue may affect code quality, maintainability, or correctness."]

----------------------------------------------------------------------------
(* runAnalysis: scan -> analyze -> build context -> populate UI.  Each await *)
(* is a point where another invocation of the command, or a change of the   *)
(* files on disk, can come in between.                                      *)

RunsNone ==
    /\ runs = <<>>
    /\ workspace = <<>>
    /\ edits = 0

RunAt(r, where) == r \in 1..Len(runs) /\ runs[r].pc = where

\* The invocations that have updated the UI
FinishedRuns == {k \in 1..Len(runs) : runs[k].pc = "done"}

\* The command is run: runAnalysis calls scanProject and awaits it
RunInvoke ==
    /\ runs' = Append(runs, [pc |-> "scan", scannedFiles |-> <<>>, issues |-> <<>>,
                             finished |-> 0])
    /\ UNCHANGED <<workspace, edits>>
    /\ UNCHANGED <<sidebarVars, diagVars>>
    /\ UNCHANGED notRun

\* scanProject reads the files as they are on disk (scanDirectory, readFile)
RunScanReads(r) ==
    /\ RunAt(r, "scan")
    /\ runs' = [runs EXCEPT ![r].pc = "scanned", ![r].scannedFiles = <<workspace>>]
    /\ UNCHANGED <<workspace, edits>>
    /\ UNCHANGED <<sidebarVars, diagVars>>
    /\ UNCHANGED notRun

\* scanProject resolves with the files it read; analyzeFiles is called and
\* awaited
RunScanned(r) ==
    /\ RunAt(r, "scanned")
    /\ runs' = [runs EXCEPT ![r].pc = "analyse"]
    /\ UNCHANGED <<workspace, edits>>
    /\ UNCHANGED <<sidebarVars, diagVars>>
    /\ UNCHANGED notRun

\* analyzeFiles resolves with the issues of the scanned files; buildContext is
\* called with them, sorts the array in getTopIssues and awaits the manifest
RunAnalysed(r) ==
    /\ RunAt(r, "analyse")
    /\ runs' = [runs EXCEPT ![r].pc = "context",
                            ![r].issues = SortedInPlace(runs[r].scannedFiles[1])]
    /\ UNCHANGED <<workspace, edits>>
    /\ UNCHANGED <<sidebarVars, diagVars>>
    /\ UNCHANGED notRun

\* buildContext resolves: treeProvider.setIssues(issues) and
\* diagnosticsManager.updateDiagnostics(issues)
RunFinished(r) ==
    /\ RunAt(r, "context")
    /\ runs' = [runs EXCEPT ![r].pc = "done", ![r].finished = Cardinality(FinishedRuns) + 1]
    /\ SetIssues(runs[r].issues)
    /\ UpdateDiagnostics(runs[r].issues)
    /\ UNCHANGED <<workspace, edits>>
    /\ UNCHANGED notRun

\* A file of the workspace is changed on disk
WorkspaceEdit(to) ==
    /\ to # workspace
    /\ workspace' = to
    /\ edits' = edits + 1
    /\ UNCHANGED runs
    /\ UNCHANGED <<sidebarVars, diagVars>>
    /\ UNCHANGED notRun

\* No call of the extension shell is under way
ShellIdle ==
    /\ PromptIdle
    /\ SidebarNew
    /\ DiagNew
    /\ RunsNone

----------------------------------------------------------------------------
(* Inputs *)

nameA == <<"a">>
nameB == <<"b">>
name_A == <<"_", "a">>
nameF == <<"f">>

PathNames == <<"file1.js", "file2.js", "file3.js", "file4.js">>

\* The text the parser rejects ('const x = ;' without error recovery)
BrokenFile(path) == FileInput(path, FALSE, <<>>, 0, 0)

\* A parsed program whose rules all run to their end
Sound(path, items) == FileInput(path, TRUE, Parse(items), 0, 0)

\* The same, with rule r throwing at the first or at the last event of its traversal
Throwing(path, items) ==
    LET tree == Parse(items)
    IN UNION {{FileInput(path, TRUE, tree, r, at) :
                  at \in {1, Len(Events(tree, RULES[r] = "deep-nesting"))} \ {0}} :
              r \in 1..Len(RULES)}

\* Every sequence of at most n items of S whose levels (0..maxLvl) nest well
Programs(S, n, maxLvl) ==
    {p \in SeqsUpTo({At(item, l) : item \in S, l \in 0..maxLvl}, n) : WellNested(p)}

\* A sequence of files, the k-th under the k-th path name
FileSeqs(Family(_), n) ==
    UNION {{fs \in [1..m -> UNION {Family(PathNames[k]) : k \in 1..m}] :
                \A k \in 1..m : fs[k].path = PathNames[k]} : m \in 0..n}

(* Orchestration: up to MaxFiles files, each broken, sound or throwing, with *)
(* a program on which all four rules report under the tight thresholds.     *)
MaxFiles == 2

AllRulesProgram ==
    <<Func("FunctionDeclaration", nameF, <<>>, TRUE, 0), At(Decl(nameA), 1),
      At(Nest("IfStatement"), 1), At(Nest("ForStatement"), 2)>>

TightConfig == [maxFunctionLines |-> <<2>>, maxNestingDepth |-> <<1>>]

OrchFiles(path) ==
    {BrokenFile(path), Sound(path, <<Decl(nameB)>>), Sound(path, AllRulesProgram)}
    \cup Throwing(path, AllRulesProgram)

Init ==
    /\ files \in FileSeqs(OrchFiles, MaxFiles)
    /\ configArg \in {<<>>, <<TightConfig>>}
    /\ AnalyzerStart
    /\ TrimIdle
    /\ ContextIdle
    /\ ShellIdle

Spec == Init /\ [][Next]_vars

\* The same inputs, with a second call on a part of the list
SpecAgain == Init /\ [][NextAgain]_vars

(* unused-vars: one file, every program of at most MaxUnusedItems top-level *)
(* items out of declarations, references, non-reference occurrences and     *)
(* functions with a parameter.                                              *)
MaxUnusedItems == 3

UnusedItems ==
    {Decl(nameA), Decl(nameB), Decl(name_A), PatDecl,
     Ref(nameA), Key(nameA), Prop(nameA),
     Func("FunctionDeclaration", nameF, <<nameA>>, FALSE, 0),
     Func("FunctionExpression", <<>>, <<nameA>>, FALSE, 0),
     Func("FunctionDeclaration", nameA, <<>>, FALSE, 0),
     ArrowExpr(<<nameA>>, FALSE)}

UnusedFiles(path) ==
    {Sound(path, p) : p \in Programs(UnusedItems, MaxUnusedItems, 0)}
    \cup {BrokenFile(path)}
    \cup Throwing(path, <<Decl(nameA)>>)

InitUnused ==
    /\ files \in {<<f>> : f \in UnusedFiles(PathNames[1])}
    /\ configArg = <<>>
    /\ AnalyzerStart
    /\ TrimIdle
    /\ ContextIdle
    /\ ShellIdle

SpecUnused == InitUnused /\ [][Next]_vars

(* long-function: one file holding one function-like node of each kind, or *)
(* a function with an arrow function inside it, with 0..MaxPad body lines   *)
(* (and the sizes around the default threshold), against every threshold    *)
(* 0..MaxLineThreshold and the absent one.                                  *)
MaxPad == 2
MaxLineThreshold == 4

\* pad + 2 lines: 80 and 81 stand on either side of the default threshold,
\* 87 is the function of the test (header, 85 generated lines, closing brace)
DefaultSizedPads == {78, 79, 85}

NameFor(type) ==
    IF type \in {"FunctionDeclaration", "ClassMethod", "ObjectMethod"} THEN nameF ELSE <<>>

LongFiles(path) ==
    {Sound(path, <<Func(t, NameFor(t), <<>>, FALSE, pad)>>) :
        t \in FunctionTypes, pad \in 0..MaxPad \cup DefaultSizedPads}
    \cup {Sound(path, <<Func("FunctionDeclaration", nameF, <<>>, FALSE, p1),
                        At(Func("ArrowFunctionExpression", <<>>, <<>>, FALSE, p2), 1)>>) :
            p1 \in 0..MaxPad, p2 \in 0..MaxPad}
    \cup {BrokenFile(path)}
    \cup Throwing(path, <<Func("FunctionDeclaration", nameF, <<>>, FALSE, MaxPad)>>)

Optional(S) == {<<>>} \cup {<<v>> : v \in S}

InitLong ==
    /\ files \in {<<f>> : f \in LongFiles(PathNames[1])}
    /\ configArg \in Optional({[maxFunctionLines |-> v, maxNestingDepth |-> <<>>] :
                                  v \in Optional(0..MaxLineThreshold)})
    /\ AnalyzerStart
    /\ TrimIdle
    /\ ContextIdle
    /\ ShellIdle

SpecLong == InitLong /\ [][Next]_vars

(* async-no-try-catch: one file, every well-nested program of at most        *)
(* MaxAsyncItems asynchronous functions, plain functions and try statements, *)
(* and each kind of asynchronous function alone, around a try, around a      *)
(* function with a try, and inside a try.                                    *)
MaxAsyncItems == 3

AsyncFn(type) == Func(type, NameFor(type), <<>>, TRUE, 0)
PlainFn == Func("FunctionExpression", <<>>, <<>>, FALSE, 0)
Try == Nest("TryStatement")

AsyncFiles(path) ==
    {Sound(path, p) :
        p \in Programs({AsyncFn("FunctionDeclaration"), PlainFn, Try, ArrowExpr(<<>>, TRUE)},
                       MaxAsyncItems, MaxAsyncItems - 1)}
    \cup UNION {{Sound(path, <<AsyncFn(t)>>),
                 Sound(path, <<AsyncFn(t), At(Try, 1)>>),
                 Sound(path, <<AsyncFn(t), At(PlainFn, 1), At(Try, 2)>>),
                 Sound(path, <<Try, At(AsyncFn(t), 1)>>)} : t \in FunctionTypes}
    \cup {BrokenFile(path)}
    \cup Throwing(path, <<AsyncFn("FunctionDeclaration")>>)

InitAsync ==
    /\ files \in {<<f>> : f \in AsyncFiles(PathNames[1])}
    /\ configArg = <<>>
    /\ AnalyzerStart
    /\ TrimIdle
    /\ ContextIdle
    /\ ShellIdle

SpecAsync == InitAsync /\ [][Next]_vars

(* deep-nesting: one file holding a chain of 0..MaxChain control-flow nodes  *)
(* nested one inside the other, against every threshold                      *)
(* 0..MaxDepthThreshold and the absent one.                                  *)
MaxChain == 6
MaxDepthThreshold == 4

Chains(n) ==
    {p \in SeqsUpTo({Nest("IfStatement"), Nest("WhileStatement")}, n) : TRUE}

AsChain(p) == [k \in 1..Len(p) |-> At(p[k], k - 1)]

\* Programs of nesting statements and declarations side by side and inside
\* one another
MaxNestItems == 3
MixedPrograms ==
    Programs({Nest("IfStatement"), Nest("ForStatement"), Decl(nameA)},
             MaxNestItems, MaxNestItems - 1)

NestFiles(path) ==
    {Sound(path, AsChain(p)) : p \in Chains(MaxChain)}
    \cup {Sound(path, p) : p \in MixedPrograms}
    \cup {BrokenFile(path)}
    \cup Throwing(path, AsChain(<<Nest("IfStatement"), Nest("TryStatement")>>))

InitNest ==
    /\ files \in {<<f>> : f \in NestFiles(PathNames[1])}
    /\ configArg \in Optional({[maxFunctionLines |-> <<>>, maxNestingDepth |-> v] :
                                  v \in Optional(0..MaxDepthThreshold)})
    /\ AnalyzerStart
    /\ TrimIdle
    /\ ContextIdle
    /\ ShellIdle

SpecNest == InitNest /\ [][Next]_vars

\* Source lines a text handed to trimForTokens is made of
lineComment == <<"/", "/", " ", "c">>
blockOpen == <<"/", "*", " ", "c">>
blockClose == <<"c", " ", "*", "/">>
importLine == <<"i", "m", "p", "o", "r", "t", " ", "a">>
typeLine == <<"t", "y", "p", "e", " ", "T">>
functionLine == <<"f", "u", "n", "c", "t", "i", "o", "n", " ", "f", "(", ")", " ", "{">>
arrowLine == <<"c", "o", "n", "s", "t", " ", "g", " ", "=", " ", "(", ")", " ", "=", ">", " ", "{">>
closeLine == <<"}">>
bodyLine == <<" ", " ", "x", ";">>
exportLine == <<"e", "x", "p", "o", "r", "t", " ", "x">>
SourceLines == {lineComment, blockOpen, blockClose, importLine, typeLine, functionLine, arrowLine, closeLine, bodyLine, exportLine}

MaxTrimLines == 3
MaxTokens == 6

\* The texts of one to MaxTrimLines source lines
TrimTexts == {JoinLines(ls) : ls \in SeqsUpTo(SourceLines, MaxTrimLines) \ {<<>>}}

InitTrim ==
    /\ text \in TrimTexts
    /\ maxTokens \in 0..MaxTokens
    /\ trimmed = <<>>
    /\ tpc = "call"
    /\ previous = <<>>
    /\ TrimLocalsFresh
    /\ AnalyzerIdle
    /\ ContextIdle
    /\ ShellIdle

SpecTrim == InitTrim /\ [][NextTrim]_vars

(* trimForTokens on long texts: blocks of distinct comment, import, type    *)
(* and function lines whose sizes stand on either side of the limits of the *)
(* reassembly, in source order or with the blocks in the opposite order,    *)
(* under budgets just below the length of the text and well below it.       *)
MaxExtra == 1
TailLines == 4

\* No line, one line, as many as the limit keeps, and more than it keeps
Counts(limit) == {0, 1, limit, limit + MaxExtra}

CommentLines(n) == [i \in 1..n |-> sLineComment \o <<" ", LowerCase[i]>>]
ImportLines(n) == [i \in 1..n |-> sImport \o <<LowerCase[i]>>]
TypeLines(n) == [i \in 1..n |-> sType \o <<UpperCase[i]>>]

\* function a() {  or  const b = () => {
SignatureLine(i) ==
    IF i % 2 = 1 THEN sFunction \o <<" ", LowerCase[i], "(", ")", " ", "{">>
    ELSE sConst \o <<" ", LowerCase[i], " ", "=", " ", "(", ")", " ">> \o sArrow \o <<" ", "{">>

FunctionBlocks(n) == Concat([i \in 1..n |-> <<SignatureLine(i), bodyLine, closeLine>>])

LongText(a, b, c, d, reversed) ==
    JoinLines(IF reversed
              THEN FunctionBlocks(d) \o TypeLines(c) \o ImportLines(b) \o CommentLines(a)
                   \o [i \in 1..TailLines |-> bodyLine]
              ELSE CommentLines(a) \o ImportLines(b) \o TypeLines(c) \o FunctionBlocks(d)
                   \o [i \in 1..TailLines |-> bodyLine])

\* Budgets that the text fits or misses by less than a token, misses by a
\* token more, and misses by half
BudgetsFor(str) == {Len(str) \div CharsPerToken, (Len(str) \div CharsPerToken) - 1,
                    Len(str) \div (2 * CharsPerToken)}

InitTrimLong ==
    /\ \E a \in Counts(3), b \in Counts(10), c \in Counts(5), d \in Counts(8),
          reversed \in BOOLEAN :
          /\ text = LongText(a, b, c, d, reversed)
          /\ maxTokens \in BudgetsFor(LongText(a, b, c, d, reversed))
    /\ trimmed = <<>>
    /\ tpc = "call"
    /\ previous = <<>>
    /\ TrimLocalsFresh
    /\ AnalyzerIdle
    /\ ContextIdle
    /\ ShellIdle

SpecTrimLong == InitTrimLong /\ [][NextTrim]_vars

(* buildContext: issue lists, manifests and files *)
pathLowerA == <<"a", ".", "t", "s">>
pathUpperB == <<"B", ".", "t", "s">>
pathInSrc == <<"s", "r", "c", "/", "a", ".", "t", "s">>
rootDir == <<"/", "p">>

MaxIssues == 6
MaxManifestKeys == 12

\* Severity and file of the issues handed to buildContext
IssueKinds ==
    {<<"error", pathUpperB>>, <<"warning", pathLowerA>>, <<"warning", pathUpperB>>,
     <<"info", pathLowerA>>}

\* The issue lists of up to n issues; the line of an issue is its place in the list
IssueLists(n) ==
    {[k \in 1..Len(kinds) |->
        Issue(kinds[k][2], k, 0, "long-function", Msg("long", nameF, 81, 80), kinds[k][1])] :
     kinds \in SeqsUpTo(IssueKinds, n)}

\* The keys package.json can list under dependencies and under devDependencies
RuntimeKeys == <<<<"q">>, <<"t", "y", "p", "e", "s", "c", "r", "i", "p", "t">>, <<"c">>, <<"a">>, <<"@", "t", "y", "p", "e", "s", "/", "a">>, <<"p">>, <<"b">>, <<"e", "s", "l", "i", "n", "t">>, <<"o">>, <<"d">>, <<"n">>, <<"e">>, <<"m">>, <<"p", "r", "e", "t", "t", "i", "e", "r">>>>
DevKeys == <<<<"j", "e", "s", "t">>, <<"a">>, <<"r">>, <<"f">>, <<"@", "t", "y", "p", "e", "s", "/", "n", "o", "d", "e">>, <<"l">>, <<"g">>, <<"k">>, <<"t", "y", "p", "e", "s", "c", "r", "i", "p", "t">>, <<"h">>, <<"j">>, <<"i">>, <<"a", "b">>, <<"@", "t", "y", "p", "e", "s", "/">>>>

\* The key is not there, or the object has the first i keys
KeyChoices(keys) == {<<>>} \cup {<<Slice0(keys, i)>> : i \in 0..MaxManifestKeys}

Manifests == {Manifest("json", d, v) : d \in KeyChoices(RuntimeKeys), v \in KeyChoices(DevKeys)}

FailingManifests == {Manifest(kind, <<>>, <<>>) : kind \in {"missing", "unreadable", "invalid", "null"}}

SmallManifest == Manifest("json", <<Slice0(RuntimeKeys, 3)>>, <<Slice0(DevKeys, 3)>>)

\* projectRoot: not passed, the empty string, a directory
Roots == {<<>>, <<<<>>>>, <<rootDir>>}

CtxFile(path, fileText) == [path |-> path, text |-> fileText]

OneFile == <<CtxFile(pathInSrc, JoinLines(<<importLine, functionLine, closeLine>>))>>

MaxSummaryLines == 2

\* A block comment opened and closed on one line
blockOneLine == <<"/", "*", " ", "c", " ", "*", "/">>

\* Up to one file of up to MaxSummaryLines source lines
SummaryFiles ==
    {<<>>} \cup {<<CtxFile(pathInSrc, JoinLines(ls))>> :
                    ls \in SeqsUpTo(SourceLines \cup {blockOneLine}, MaxSummaryLines) \ {<<>>}}

ContextStart ==
    /\ issuesAtCall = ctxIssues
    /\ fileSummaries = <<>>
    /\ topIssues = <<>>
    /\ dependencies = <<>>
    /\ context = <<>>
    /\ cpc = "call"

InitContext ==
    /\ \/ /\ ctxIssues \in IssueLists(MaxIssues)
          /\ ctxFiles = <<>>
          /\ \E rm \in {<<<<>>, SmallManifest>>, <<<<rootDir>>, SmallManifest>>,
                        <<<<rootDir>>, Manifest("missing", <<>>, <<>>)>>} :
                projectRoot = rm[1] /\ manifest = rm[2]
       \/ /\ ctxIssues \in IssueLists(2)
          /\ ctxFiles = OneFile
          /\ projectRoot = <<rootDir>>
          /\ manifest \in Manifests
       \/ /\ ctxIssues \in IssueLists(2)
          /\ ctxFiles \in {<<>>, OneFile}
          /\ projectRoot \in Roots
          /\ manifest \in FailingManifests \cup {SmallManifest}
       \/ /\ ctxIssues \in IssueLists(1)
          /\ ctxFiles \in SummaryFiles
          /\ \E rm \in {<<<<>>, SmallManifest>>, <<<<rootDir>>, SmallManifest>>,
                        <<<<rootDir>>, Manifest("invalid", <<>>, <<>>)>>} :
                projectRoot = rm[1] /\ manifest = rm[2]
    /\ ContextStart
    /\ AnalyzerIdle
    /\ TrimIdle
    /\ ShellIdle

SpecContext == InitContext /\ [][NextContext]_vars

(* buildPrompt: issues and context summaries whose strings hold plain    *)
(* characters, the characters of the replacement patterns and the text of *)
(* placeholders of the template: one such string of up to MaxValueLen     *)
(* pieces in one field and plain text in the others, or up to one piece   *)
(* in every field.                                                        *)
MaxValueLen == 2

ValuePieces == {"x", "$", "&", chGrave, "'", phFile, phMessage}
Values(n) == SeqsUpTo(ValuePieces, n)

plainContext == <<"c", "t", "x">>
plainMessage == <<"m", "s", "g">>
ruleIdUnused == <<"unused-vars">>

PromptIssue(file, line, ruleId, message) ==
    [file |-> file, line |-> line, column |-> 0, ruleId |-> ruleId, message |-> message,
     severity |-> "warning"]

PromptInputs ==
    {<<v, PromptIssue(pathLowerA, 42, ruleIdUnused, plainMessage)>> : v \in Values(MaxValueLen)}
    \cup {<<plainContext, PromptIssue(v, 42, ruleIdUnused, plainMessage)>> : v \in Values(MaxValueLen)}
    \cup {<<plainContext, PromptIssue(pathLowerA, 42, v, plainMessage)>> : v \in Values(MaxValueLen)}
    \cup {<<plainContext, PromptIssue(pathLowerA, 42, ruleIdUnused, v)>> : v \in Values(MaxValueLen)}
    \cup {<<c, PromptIssue(f, l, r, m)>> :
             c \in Values(1), f \in Values(1), l \in {1, 10}, r \in Values(1), m \in Values(1)}

InitPrompt ==
    /\ \E in \in PromptInputs : promptContext = in[1] /\ promptIssue = <<in[2]>>
    /\ PromptStart
    /\ SidebarNew
    /\ DiagNew
    /\ RunsNone
    /\ AnalyzerIdle
    /\ TrimIdle
    /\ ContextIdle

SpecPrompt == InitPrompt /\ [][NextPrompt]_vars

(* The sidebar provider: up to MaxSetCalls calls of setIssues with lists of *)
(* up to MaxTreeIssues issues, and getChildren for the root and for every   *)
(* item the root has.                                                       *)
MaxSetCalls == 2
MaxTreeIssues == 3

SidebarCalls ==
    \/ /\ setCalls < MaxSetCalls
       /\ \E list \in IssueLists(MaxTreeIssues) : SetIssues(list)
       /\ UNCHANGED notSidebar
    \/ /\ children = <<>>
       /\ \E element \in {<<>>} \cup {<<IssueItem(treeIssues[k])>> : k \in 1..Len(treeIssues)} :
             GetChildren(element)
       /\ UNCHANGED notSidebar

InitSidebar ==
    /\ AnalyzerIdle
    /\ TrimIdle
    /\ ContextIdle
    /\ ShellIdle

SpecSidebar == InitSidebar /\ [][SidebarCalls]_vars

(* The diagnostics manager: up to MaxDiagCalls calls of updateDiagnostics    *)
(* and clear, with lists of up to MaxDiagIssues issues over a relative path, *)
(* the same path written absolutely and a path with a space, at column 0    *)
(* and at a later column.                                                   *)
MaxDiagCalls == 3
MaxDiagIssues == 2

pathAbsoluteA == <<"/", "a", ".", "t", "s">>
pathWithSpace == <<"/", "b", " ", "c">>
DiagPaths == {pathLowerA, pathAbsoluteA, pathWithSpace}

DiagIssues ==
    {Issue(p, 1, 0, "unused-vars", Msg("'${name}' is declared but never used", nameA, 0, 0),
           "warning") : p \in DiagPaths}
    \cup {Issue(p, 2, 3, "deep-nesting",
                Msg("${nodeType} has nesting depth ${currentDepth} (max ${maxDepth})",
                    <<"If statement">>, 5, 4), "warning") : p \in DiagPaths}

DiagLists == SeqsUpTo(DiagIssues, MaxDiagIssues)

DiagCalls ==
    \/ /\ diagCalls < MaxDiagCalls
       /\ \E list \in DiagLists : UpdateDiagnostics(list)
       /\ UNCHANGED notDiag
    \/ /\ diagCalls < MaxDiagCalls
       /\ ClearDiagnostics
       /\ UNCHANGED notDiag

InitDiag ==
    /\ AnalyzerIdle
    /\ TrimIdle
    /\ ContextIdle
    /\ ShellIdle

SpecDiag == InitDiag /\ [][DiagCalls]_vars

(* The command run up to MaxRuns times over a workspace that changes on disk *)
(* up to MaxEdits times in between; the workspace is one of three, told     *)
(* apart by the issues its files have.                                      *)
MaxRuns == 2
MaxEdits == 1

RunLists ==
    {<<>>,
     <<Issue(pathLowerA, 1, 0, "long-function", Msg("long", nameF, 81, 80), "info"),
       Issue(pathUpperB, 2, 0, "long-function", Msg("long", nameF, 81, 80), "error")>>,
     <<Issue(pathLowerA, 3, 0, "long-function", Msg("long", nameF, 81, 80), "warning")>>}

RunCalls ==
    \/ Len(runs) < MaxRuns /\ RunInvoke
    \/ \E r \in 1..Len(runs) : RunScanReads(r)
    \/ \E r \in 1..Len(runs) : RunScanned(r)
    \/ \E r \in 1..Len(runs) : RunAnalysed(r)
    \/ \E r \in 1..Len(runs) : RunFinished(r)
    \/ edits < MaxEdits /\ \E to \in RunLists : WorkspaceEdit(to)

InitRun ==
    /\ AnalyzerIdle
    /\ TrimIdle
    /\ ContextIdle
    /\ PromptIdle
    /\ SidebarNew
    /\ DiagNew
    /\ runs = <<>>
    /\ workspace \in RunLists
    /\ edits = 0

SpecRun == InitRun /\ [][RunCalls]_vars

----------------------------------------------------------------------------
(* What the claims speak of, read off the input tree without running a     *)
(* traversal.                                                              *)

IndexOfPath(path) == CHOOSE k \in 1..Len(files) : files[k].path = path
IndexOfRule(ruleId) == CHOOSE r \in 1..Len(RULES) : RULES[r] = ruleId

IssuesOf(list, k, r) ==
    SelectSeq(list, LAMBDA x : x.file = files[k].path /\ x.ruleId = RULES[r])

Before(x, y) == x.line < y.line \/ (x.line = y.line /\ x.column < y.column)

\* The nesting nodes that enclose node i, node i included
RECURSIVE NestingDepthOf(_, _)
NestingDepthOf(tree, i) ==
    IF i = 0 THEN 0
    ELSE (IF IsNestingNode(tree[i]) THEN 1 ELSE 0) + NestingDepthOf(tree, tree[i].parent)

LongFunctions(tree, maxLines) ==
    {i \in 1..Len(tree) : tree[i].type \in FunctionTypes /\ LineCount(tree[i]) > maxLines}

\* The try statements whose nearest enclosing function is node i: i encloses
\* them and no function between i and them does
TryOwnedBy(tree, i) ==
    {d \in 1..Len(tree) :
        /\ tree[d].type = "TryStatement"
        /\ IsAncestor(tree, i, d)
        /\ \A f \in 1..Len(tree) :
              (IsAncestor(tree, i, f) /\ IsAncestor(tree, f, d))
                  => tree[f].type \notin FunctionTypes}

UnguardedAsync(tree) ==
    {i \in 1..Len(tree) :
        tree[i].type \in FunctionTypes /\ tree[i].async /\ TryOwnedBy(tree, i) = {}}

TooDeep(tree, maxDepth) ==
    {i \in 1..Len(tree) : IsNestingNode(tree[i]) /\ NestingDepthOf(tree, i) > maxDepth}

\* Identifier nodes that are the target of a variable declaration
VarDeclIds(tree) ==
    {i \in 1..Len(tree) :
        /\ tree[i].type = "Identifier" /\ tree[i].key = "id"
        /\ tree[i].parent # 0 /\ tree[tree[i].parent].type = "VariableDeclarator"}

\* Declarations whose name stands nowhere else in the file
LoneDecls(tree) ==
    {i \in VarDeclIds(tree) :
        /\ ~StartsWith(tree[i].name, <<"_">>)
        /\ \A j \in 1..Len(tree) : (j # i /\ tree[j].type = "Identifier")
                                      => tree[j].name # tree[i].name}

\* How many issues rule r owes for a tree (for unused-vars: at least)
Owed(tree, r) ==
    CASE r = 1 -> Cardinality(LoneDecls(tree))
      [] r = 2 -> Cardinality(LongFunctions(tree, MaxLines(Config)))
      [] r = 3 -> Cardinality(UnguardedAsync(tree))
      [] r = 4 -> Cardinality(TooDeep(tree, MaxDepth(Config)))

RaisesOn(k, r) == files[k].parses /\ files[k].raiseRule = r

----------------------------------------------------------------------------
(* Claims *)

\* C1: analyzeFiles never raises and never stops early: it returns only after
\* the loop has passed every file, a file whose parse fails contributes no
\* issue, and every file that parses - also one that follows a file whose parse
\* failed or on which a rule raised - has the issues of each of its rules that
\* did not raise.
C1_NeverAborts ==
    /\ ~raised
    /\ pc = "done" =>
        /\ fileIdx = Len(files) + 1
        /\ \A k \in 1..Len(files) :
              /\ ~files[k].parses =>
                    \A x \in 1..Len(allIssues) : allIssues[x].file # files[k].path
              /\ files[k].parses =>
                    \A r \in 1..Len(RULES) :
                        ~RaisesOn(k, r) =>
                            Len(IssuesOf(allIssues, k, r)) >= Owed(files[k].tree, r)

C1_Witness ==
    /\ pc = "done"
    /\ Len(files) = 2
    /\ ~files[1].parses
    /\ files[2].raiseRule = 2
    /\ Len(IssuesOf(allIssues, 2, 1)) = 1
    /\ Len(IssuesOf(allIssues, 2, 4)) = 1

\* C2: the issue list is ordered by input file, then by rule registration
\* order, then by emission order: no issue of a later file precedes one of an
\* earlier file, within a file no issue of a later rule precedes one of an
\* earlier rule, and the issues of one traversal-emitting rule on one file stand
\* in the order in which the traversal met their nodes.
C2_Ordered ==
    \A x, y \in 1..Len(allIssues) :
        x < y =>
            LET fx == IndexOfPath(allIssues[x].file)
                fy == IndexOfPath(allIssues[y].file)
                rx == IndexOfRule(allIssues[x].ruleId)
                ry == IndexOfRule(allIssues[y].ruleId)
            IN /\ fx <= fy
               /\ fx = fy => rx <= ry
               /\ (fx = fy /\ rx = ry /\ rx > 1) => Before(allIssues[x], allIssues[y])

C2_Witness ==
    /\ pc = "done"
    /\ Len(files) = 2
    /\ \A k \in 1..2 : \A r \in 1..Len(RULES) : Len(IssuesOf(allIssues, k, r)) = 1

\* C3: when a rule raises on a file it contributes no issue for that file, not
\* even those it had collected before raising, while every other rule has all
\* its issues for that file in the output.
C3_RaisingRuleContributesNothing ==
    pc = "done" =>
        \A k \in 1..Len(files) : \A r \in 1..Len(RULES) :
            RaisesOn(k, r) =>
                /\ IssuesOf(allIssues, k, r) = <<>>
                /\ \A q \in 1..Len(RULES) \ {r} :
                      /\ Len(IssuesOf(allIssues, k, q)) >= Owed(files[k].tree, q)
                      /\ q > 1 => Len(IssuesOf(allIssues, k, q)) = Owed(files[k].tree, q)

C3_Witness ==
    /\ pc = "done"
    /\ Len(files) >= 1
    /\ RaisesOn(1, 3)
    /\ files[1].raiseAt > 1
    /\ Owed(files[1].tree, 3) = 1
    /\ Len(IssuesOf(allIssues, 1, 2)) = 1
    /\ Len(IssuesOf(allIssues, 1, 4)) = 1

(* unused-vars: the vocabulary of C4..C6 *)

IsParam(tree, j) ==
    /\ tree[j].type = "Identifier" /\ tree[j].key = "params"
    /\ tree[j].parent # 0
    /\ tree[tree[j].parent].type \in
          {"FunctionDeclaration", "FunctionExpression", "ArrowFunctionExpression"}

\* An identifier in a position that is a declaration target (of a variable or a
\* parameter), a function name, an object property key or a member property
IsNonReference(tree, j) ==
    \/ j \in VarDeclIds(tree)
    \/ IsParam(tree, j)
    \/ tree[j].parent # 0 /\ tree[j].key = "id" /\ tree[tree[j].parent].type \in FunctionTypes
    \/ tree[j].parent # 0 /\ tree[j].key = "key"
    \/ tree[j].parent # 0 /\ tree[j].key = "property"
          /\ tree[tree[j].parent].type = "MemberExpression"

ReferencesTo(tree, name) ==
    {j \in 1..Len(tree) :
        tree[j].type = "Identifier" /\ tree[j].name = name /\ ~IsNonReference(tree, j)}

\* Every occurrence of the name other than as the target of a variable
\* declaration, the name of a function declaration, an object property key or a
\* member property: the occurrences the rule counts as a use
CountedOccurrences(tree, name) ==
    {j \in 1..Len(tree) :
        /\ tree[j].type = "Identifier" /\ tree[j].name = name
        /\ j \notin VarDeclIds(tree)
        /\ ~(tree[j].parent # 0 /\ tree[j].key = "id"
                /\ tree[tree[j].parent].type = "FunctionDeclaration")
        /\ ~(tree[j].parent # 0 /\ tree[j].key = "key"
                /\ tree[tree[j].parent].type = "ObjectProperty")
        /\ ~(tree[j].parent # 0 /\ tree[j].key = "property"
                /\ tree[tree[j].parent].type = "MemberExpression")}

UnusedIssuesAt(list, node) ==
    SelectSeq(list, LAMBDA x : x.ruleId = "unused-vars" /\ x.line = node.line
                                 /\ x.column = node.column)

UnusedIssuesFor(list, name) ==
    SelectSeq(list, LAMBDA x : x.ruleId = "unused-vars" /\ x.message.name = name)

\* The call is over and the unused-vars rule ran to its end on the one file
UnusedRan == pc = "done" /\ Len(files) = 1 /\ files[1].parses /\ files[1].raiseRule # 1

DeclsOf(tree, name) == {i \in VarDeclIds(tree) : tree[i].name = name}

Max(S) == CHOOSE x \in S : \A y \in S : y <= x

C5_ReferencedNeverReported ==
    UnusedRan =>
        LET tree == files[1].tree IN
        \A i \in 1..Len(tree) :
            (tree[i].type = "Identifier" /\ ReferencesTo(tree, tree[i].name) # {})
                => UnusedIssuesFor(allIssues, tree[i].name) = <<>>

\* C6: a plain-identifier parameter of a function declaration, function
\* expression or arrow function, without leading underscore and with a name
\* that is never referenced (and not declared a second time), yields one
\* unused-vars warning at the parameter.
C6_UnusedParameterReported ==
    UnusedRan =>
        LET tree == files[1].tree IN
        \A j \in 1..Len(tree) :
            (/\ IsParam(tree, j)
             /\ ~StartsWith(tree[j].name, <<"_">>)
             /\ ReferencesTo(tree, tree[j].name) = {}
             /\ \A i \in 1..Len(tree) :
                   (i # j /\ tree[i].type = "Identifier") => tree[i].name # tree[j].name)
                => Len(UnusedIssuesAt(allIssues, tree[j])) = 1

(* long-function, async-no-try-catch, deep-nesting: the vocabulary of C7..C9 *)

IssuesAt(list, ruleId, node) ==
    SelectSeq(list, LAMBDA x : x.ruleId = ruleId /\ x.line = node.line
                                 /\ x.column = node.column)

RuleRan(r) == pc = "done" /\ Len(files) = 1 /\ files[1].parses /\ files[1].raiseRule # r

\* The threshold in force: the supplied value, the default when none is supplied
Supplied(opt, dflt) == IF opt = <<>> THEN dflt ELSE opt[1]
LinesThreshold == Supplied(Config.maxFunctionLines, DefaultMaxFunctionLines)
DepthThreshold == Supplied(Config.maxNestingDepth, DefaultMaxNestingDepth)

\* C7: for every function-like node and every integer maxFunctionLines supplied,
\* the long-function rule emits exactly one issue for the node when
\* endLine - startLine + 1 exceeds the threshold and none otherwise; the
\* threshold is 80 when the field is absent.
C7_LongFunctionByThreshold ==
    RuleRan(2) =>
        LET tree == files[1].tree IN
        \A i \in 1..Len(tree) :
            tree[i].type \in FunctionTypes =>
                Len(IssuesAt(allIssues, "long-function", tree[i])) =
                    (IF tree[i].endLine - tree[i].line + 1 > LinesThreshold THEN 1 ELSE 0)

\* C8: every asynchronous function-like node gets exactly one
\* async-no-try-catch issue when no try statement has it as nearest enclosing
\* function, and none when one has: a try inside a nested function does not
\* count for the outer function, nor a try of the outer function for an
\* asynchronous function nested in it.
C8_AsyncWithoutOwnTry ==
    RuleRan(3) =>
        LET tree == files[1].tree IN
        \A i \in 1..Len(tree) :
            (tree[i].type \in FunctionTypes /\ tree[i].async) =>
                Len(IssuesAt(allIssues, "async-no-try-catch", tree[i])) =
                    (IF TryOwnedBy(tree, i) = {} THEN 1 ELSE 0)

\* An asynchronous function without a try of its own around a function that
\* has one, and an asynchronous function inside the try of another
C8_Witness ==
    /\ RuleRan(3)
    /\ LET tree == files[1].tree IN
       \E i, j \in 1..Len(tree) :
          /\ tree[i].type \in FunctionTypes /\ tree[i].async
          /\ tree[j].type \in FunctionTypes /\ tree[j].async
          /\ \E d \in TryOwnedBy(tree, i) : IsAncestor(tree, d, j)
          /\ IssuesAt(allIssues, "async-no-try-catch", tree[i]) = <<>>
          /\ Len(IssuesAt(allIssues, "async-no-try-catch", tree[j])) = 1

\* A chain: every node is a control-flow node and sits directly in the one before
IsChain(tree) ==
    \A i \in 1..Len(tree) : IsNestingNode(tree[i]) /\ tree[i].parent = i - 1

\* C9: for a chain of D control-flow nodes and every integer threshold T
\* supplied as maxNestingDepth (T is 4 when the field is absent), the
\* deep-nesting rule emits D - T issues when D > T, one at each node deeper
\* than T and reporting that node's depth, and none when D <= T.
C9_OnePerExcessLevel ==
    (RuleRan(4) /\ IsChain(files[1].tree)) =>
        LET tree == files[1].tree
            D == Len(tree)
            T == DepthThreshold
            deep == SelectSeq(allIssues, LAMBDA x : x.ruleId = "deep-nesting")
        IN /\ Len(deep) = (IF D > T THEN D - T ELSE 0)
           /\ \A i \in 1..D :
                i > T => /\ Len(IssuesAt(allIssues, "deep-nesting", tree[i])) = 1
                         /\ IssuesAt(allIssues, "deep-nesting", tree[i])[1].message.n = i

\* C10: when the text is at most four characters per token of the budget long,
\* trimForTokens returns the text itself, character for character.
C10_FitsReturnedUnchanged ==
    (tpc = "done" /\ Len(text) <= 4 * maxTokens) => trimmed = text

\* A text exactly as long as the budget, with a line no bucket collects, has
\* been returned as it was.
C10_Witness ==
    /\ tpc = "done"
    /\ Len(text) = 4 * maxTokens
    /\ Includes(text, bodyLine)
    /\ trimmed = text

\* The call has returned after scanning, and the reassembled text was too long
HardCut == tpc = "done" /\ lineIdx > 0 /\ Len(Reassembled) > 4 * maxTokens

\* C11: for every text and every budget, also one of fewer than 20 characters,
\* the returned string has at most maxChars characters when no hard cut took
\* place; after a hard cut it is the first maxChars - 20 characters of the
\* reassembled text (none when that number is negative) followed by the
\* truncation marker, so that it exceeds maxChars by no more than the marker.
C11_LengthWithinBudget ==
    tpc = "done" =>
        LET maxChars == 4 * maxTokens
            kept == IF maxChars - 20 < 0 THEN 0 ELSE maxChars - 20
        IN /\ ~HardCut => Len(trimmed) <= maxChars
           /\ HardCut => trimmed = SubSeq(Reassembled, 1, kept) \o TruncationMarker
           /\ Len(trimmed) <= maxChars + Len(TruncationMarker)

\* A hard cut under a budget of fewer than 20 characters, and the returned
\* string is longer than the budget.
C11_Witness ==
    /\ HardCut
    /\ previous = <<>>
    /\ 4 * maxTokens < 20
    /\ maxTokens > 0
    /\ Len(trimmed) > 4 * maxTokens

\* The second of two calls has returned: trim(trim(t, N), N) is `trimmed`,
\* trim(t, N) is previous[1].result and t is previous[1].text
TrimmedTwice == tpc = "done" /\ previous # <<>>

\* C12 as stated: for every text and budget, also when the text did not fit,
\* a second trim with the same budget leaves the output of the first unchanged.
C12_Idempotent ==
    TrimmedTwice => trimmed = previous[1].result

\* C12 as amended: a second trim with the same budget leaves the output of
\* the first unchanged whenever the first did not end in a hard cut, that is,
\* whenever its output has at most maxChars characters (the text fitted, or
\* its reassembled parts did).
C12_IdempotentWithoutHardCut ==
    (TrimmedTwice /\ Len(previous[1].result) <= 4 * maxTokens)
        => trimmed = previous[1].result

\* A text that did not fit was reassembled without a hard cut into a text
\* that is not empty, and the second trim has returned that text.
C12_Witness ==
    /\ TrimmedTwice
    /\ Len(previous[1].text) > 4 * maxTokens
    /\ previous[1].result # <<>>
    /\ Len(previous[1].result) <= 4 * maxTokens
    /\ trimmed = previous[1].result

----------------------------------------------------------------------------
(* buildContext: the vocabulary of C13..C15 *)

SeverityRank(x) == CASE x.severity = "error" -> 0 [] x.severity = "warning" -> 1
                     [] x.severity = "info" -> 2

\* x ranks strictly before y: by severity, then by file path
RanksBefore(x, y) ==
    \/ SeverityRank(x) < SeverityRank(y)
    \/ SeverityRank(x) = SeverityRank(y) /\ LocaleCompare(x.file, y.file) < 0

RanksWith(x, y) == ~RanksBefore(x, y) /\ ~RanksBefore(y, x)

\* C13: topIssues is the first min(5, n) elements of the issue list stably
\* sorted by severity (error, warning, info) and then by file path: at most 5
\* issues of the list, none preceded by one that ranks after it, issues of
\* equal rank in their input order, and no omitted issue ranking before an
\* included one (nor with it, if it came earlier in the input).
C13_TopIssuesSorted ==
    cpc = "done" =>
        LET top == context[1].topIssues
            given == issuesAtCall
            omitted == Range(given) \ Range(top)
        IN /\ Len(top) = (IF Len(given) < 5 THEN Len(given) ELSE 5)
           /\ \A k \in 1..Len(top) : top[k] \in Range(given)
           /\ \A k, l \in 1..Len(top) :
                k < l => /\ top[k] # top[l]
                         /\ ~RanksBefore(top[l], top[k])
                         /\ RanksWith(top[k], top[l]) => top[k].line < top[l].line
           /\ \A x \in omitted : \A k \in 1..Len(top) :
                /\ ~RanksBefore(x, top[k])
                /\ RanksWith(x, top[k]) => top[k].line < x.line

\* Six issues, the warnings of the second file ahead of those of the first and
\* an info ahead of an error in the input: the five returned start with the
\* error and leave the info out.
C13_Witness ==
    /\ cpc = "done"
    /\ Len(issuesAtCall) = 6
    /\ issuesAtCall[1].severity = "info"
    /\ issuesAtCall[2].severity = "warning" /\ issuesAtCall[2].file = pathUpperB
    /\ issuesAtCall[3].severity = "warning" /\ issuesAtCall[3].file = pathLowerA
    /\ issuesAtCall[4].severity = "warning" /\ issuesAtCall[4].file = pathLowerA
    /\ issuesAtCall[5].severity = "warning" /\ issuesAtCall[5].file = pathUpperB
    /\ issuesAtCall[6].severity = "error"
    /\ [k \in 1..5 |-> context[1].topIssues[k].line] = <<6, 3, 4, 2, 5>>

\* The names package.json declares under dependencies or devDependencies
Declared(m) ==
    (IF m.dependencies # <<>> THEN Range(m.dependencies[1]) ELSE {})
    \cup (IF m.devDependencies # <<>> THEN Range(m.devDependencies[1]) ELSE {})

\* The declared names that are no tooling name and no type package
Qualifying(m) ==
    {n \in Declared(m) :
        /\ n \notin {sTypescript, sEslint, sJest, sPrettier}
        /\ ~(Len(n) >= 7 /\ SubSeq(n, 1, 7) = <<"@", "t", "y", "p", "e", "s", "/">>)}

\* buildContext has returned after reading an object from package.json
ManifestRead == cpc = "done" /\ HasRoot(projectRoot) /\ ~ManifestFails(manifest)

\* C14: the dependencies of the context are declared names, none twice, none a
\* tooling name (typescript, eslint, jest, prettier) or an '@types/' package,
\* in ascending order, at most 15; when more than 15 names qualify they are
\* the 15 that come first in that order.
C14_DependenciesFiltered ==
    ManifestRead =>
        LET deps == context[1].dependencies
            qualifying == Qualifying(manifest)
        IN /\ \A k \in 1..Len(deps) : deps[k] \in qualifying
           /\ \A k, l \in 1..Len(deps) : k < l => CompareCodeUnits(deps[k], deps[l]) < 0
           /\ Len(deps) <= 15
           /\ Cardinality(qualifying) > 15 =>
                /\ Len(deps) = 15
                /\ \A n \in qualifying \ Range(deps) :
                      \A k \in 1..Len(deps) : CompareCodeUnits(deps[k], n) < 0

\* More than 15 names qualify, among tooling names, type packages and a name
\* declared in both objects, and 15 are returned.
C14_Witness ==
    /\ ManifestRead
    /\ Cardinality(Qualifying(manifest)) > 15
    /\ Declared(manifest) \ Qualifying(manifest) # {}
    /\ Len(context[1].dependencies) = 15
    /\ <<"a">> \in Range(manifest.dependencies[1]) \cap Range(manifest.devDependencies[1])

\* No manifest can be used: no project root is given, or the file is missing,
\* unreadable or not parsable
NoManifest == ~HasRoot(projectRoot) \/ ManifestFails(manifest)

\* C15: without a usable manifest buildContext does not raise; it returns no
\* dependencies, and the file summaries and top issues that the files and the
\* issues alone determine, as with a valid manifest.
C15_NoManifestNoError ==
    /\ cpc # "raised"
    /\ (cpc = "done" /\ NoManifest) =>
          /\ context[1].dependencies = <<>>
          /\ context[1].files =
                [k \in 1..Len(ctxFiles) |->
                    [path |-> ctxFiles[k].path,
                     brief |-> GenerateFileSummary(ctxFiles[k].text, ctxFiles[k].path)]]
          /\ context[1].topIssues = Slice0(SortIssues(issuesAtCall), 5)

\* A project root whose package.json is not valid JSON: the context is
\* returned with a file summary, top issues and no dependencies.
C15_Witness ==
    /\ cpc = "done"
    /\ HasRoot(projectRoot)
    /\ manifest.kind = "invalid"
    /\ Len(context[1].files) = 1
    /\ Len(context[1].topIssues) = 2
    /\ context[1].dependencies = <<>>

----------------------------------------------------------------------------
(* Issue fields and independence across files: C16, C17, C18 *)

\* The node is one that the rule of the issue reports on
Triggers(node, x) ==
    CASE x.ruleId = "unused-vars" -> node.type = "Identifier" /\ node.name = x.message.name
      [] x.ruleId = "long-function" ->
            node.type \in {"FunctionDeclaration", "FunctionExpression",
                           "ArrowFunctionExpression", "ClassMethod", "ObjectMethod"}
      [] x.ruleId = "async-no-try-catch" ->
            /\ node.type \in {"FunctionDeclaration", "FunctionExpression",
                              "ArrowFunctionExpression", "ClassMethod", "ObjectMethod"}
            /\ node.async
      [] x.ruleId = "deep-nesting" ->
            node.type \in {"IfStatement", "ForStatement", "ForInStatement", "ForOfStatement",
                           "WhileStatement", "DoWhileStatement", "SwitchStatement",
                           "TryStatement", "CatchClause"}
      [] OTHER -> FALSE

OfFiles(list, part) == SelectSeq(list, LAMBDA x : \E k \in 1..Len(part) : part[k].path = x.file)

\* C17: the result of analyzeFiles on a list A ++ B is the result on A followed
\* by the result on B: a later call on A alone, or on B alone, returns exactly
\* the issues the call on A ++ B had reported for those files, and the result
\* for A ++ B is those of A followed by those of B
C17_FilesIndependent ==
    (pc = "done" /\ earlier # <<>>) =>
        LET whole == earlier[1]
            A == SubSeq(whole.files, 1, whole.split)
            B == SubSeq(whole.files, whole.split + 1, Len(whole.files))
        IN /\ files \in {A, B}
           /\ whole.result = OfFiles(whole.result, A) \o OfFiles(whole.result, B)
           /\ allIssues = OfFiles(whole.result, files)

\* Both files of a two-file call had issues, and the second one, analysed
\* alone afterwards, yields its issues again
C17_Witness ==
    /\ pc = "done"
    /\ earlier # <<>>
    /\ Len(earlier[1].files) = 2
    /\ earlier[1].split = 1
    /\ files = SubSeq(earlier[1].files, 2, 2)
    /\ allIssues # <<>>
    /\ Len(allIssues) < Len(earlier[1].result)
    /\ allIssues = OfFiles(earlier[1].result, files)

\* The function of the test: one function in the file, its header and its
\* closing brace on lines of their own around TestBodyLines generated lines
TestBodyLines == 85

IsTestFunction(tree, i) ==
    /\ tree[i].type \in FunctionTypes
    /\ \A j \in 1..Len(tree) : tree[j].type \in FunctionTypes => j = i
    /\ tree[i].endLine - tree[i].line - 1 = TestBodyLines

LongFunctionIssues == SelectSeq(allIssues, LAMBDA x : x.ruleId = "long-function")

\* C18: for a function whose body is 85 generated lines, analysed with the
\* default thresholds, exactly one long-function issue is emitted and its
\* message embeds the line count 85 and the maximum 80
C18_MessageEmbedsBodyLines ==
    (RuleRan(2) /\ configArg = <<>>) =>
        \A i \in 1..Len(files[1].tree) :
            IsTestFunction(files[1].tree, i) =>
                /\ Len(LongFunctionIssues) = 1
                /\ LongFunctionIssues[1].message.n = TestBodyLines
                /\ LongFunctionIssues[1].message.max = DefaultMaxFunctionLines

\* What the rule reports for that function: one issue, with the lines from
\* the header to the closing brace, both included
TestFunctionSpanReported ==
    (RuleRan(2) /\ configArg = <<>>) =>
        \A i \in 1..Len(files[1].tree) :
            IsTestFunction(files[1].tree, i) =>
                /\ Len(LongFunctionIssues) = 1
                /\ LongFunctionIssues[1].message.n = TestBodyLines + 2
                /\ LongFunctionIssues[1].message.max = DefaultMaxFunctionLines

----------------------------------------------------------------------------
(* The reassembled output and its length: C19, C20 *)

First(seq, n) == SubSeq(seq, 1, IF Len(seq) < n THEN Len(seq) ELSE n)

\* // ... and N more imports   and   // ... and N more functions
MoreNote(n, what) == <<"/", "/", " ", ".", ".", ".", " ", "a", "n", "d", " ">> \o ToDigits(n) \o what

\* The lines the statement lists, in its order
Listed(cs, im, ty, fs) ==
    cs
    \o First(im, 10)
    \o (IF Len(im) > 10 THEN <<MoreNote(Len(im) - 10, sMoreImports)>> ELSE <<>>)
    \o First(ty, 5)
    \o First(fs, 8)
    \o (IF Len(fs) > 8 THEN <<MoreNote(Len(fs) - 8, sMoreFunctions)>> ELSE <<>>)

\* The same, with an empty line before the type lines and before the signature lines
ListedWithSeparators(cs, im, ty, fs) ==
    cs
    \o First(im, 10)
    \o (IF Len(im) > 10 THEN <<MoreNote(Len(im) - 10, sMoreImports)>> ELSE <<>>)
    \o (IF ty # <<>> THEN <<<<>>>> \o First(ty, 5) ELSE <<>>)
    \o (IF fs # <<>> THEN <<<<>>>> \o First(fs, 8) ELSE <<>>)
    \o (IF Len(fs) > 8 THEN <<MoreNote(Len(fs) - 8, sMoreFunctions)>> ELSE <<>>)

Buckets == <<comments, imports, typeDeclarations, functionSignatures, exports>>

\* One line of the input is scanned: it is appended to one bucket or to none
OneLinePlaced ==
    \E b \in 0..Len(Buckets) :
        \A k \in 1..Len(Buckets) :
            Buckets'[k] = IF k = b THEN Append(Buckets[k], lines[lineIdx]) ELSE Buckets[k]

\* The call returns what it reassembled, without a hard cut
ReturnsReassembled == tpc = "scan" /\ tpc' = "done" /\ ~HardCut'

\* C19 as stated: when the input exceeds the budget and no hard cut is needed,
\* the output is, in this order, the comment lines (at most 3), the first up
\* to 10 import lines, the 'N more imports' note exactly when more than 10
\* were collected, the first up to 5 type lines, the first up to 8 signature
\* lines and the 'N more functions' note exactly when more than 8 were
\* collected, and nothing else; every input line goes to at most one bucket
\* and keeps its place within it.
C19_OutputIsListedParts ==
    [][/\ (tpc = "scan" /\ tpc' = "scan") => OneLinePlaced
       /\ ReturnsReassembled =>
            /\ Len(comments) <= 3
            /\ trimmed' = JoinLines(Listed(comments, imports, typeDeclarations,
                                           functionSignatures))]_vars

\* C19, amended: the same parts in the same order, with one empty line before
\* the type lines when there are any and one before the signature lines when
\* there are any.
C19_OutputIsListedPartsWithSeparators ==
    [][/\ (tpc = "scan" /\ tpc' = "scan") => OneLinePlaced
       /\ ReturnsReassembled =>
            /\ Len(comments) <= 3
            /\ trimmed' = JoinLines(ListedWithSeparators(comments, imports, typeDeclarations,
                                                         functionSignatures))]_vars

\* A text of more than 10 import lines and more than 8 signatures, its blocks
\* in the opposite order of the output, came back reassembled with both notes
C19_Witness ==
    /\ tpc = "done"
    /\ previous = <<>>
    /\ ~Fits(text, MaxCharsFor(maxTokens))
    /\ ~HardCut
    /\ Len(comments) = 3
    /\ Len(imports) > 10
    /\ Len(typeDeclarations) > 5
    /\ Len(functionSignatures) > 8
    /\ MatchesFunction(TrimWs(lines[1]))
    /\ trimmed = JoinLines(ListedWithSeparators(comments, imports, typeDeclarations,
                                                functionSignatures))

\* The call went past the early return: the text did not fit
TooLong == tpc = "done" /\ ~Fits(text, MaxCharsFor(maxTokens))

\* C20 as stated: whenever the text does not fit the budget, the result is
\* strictly shorter than the text, for every text and every budget >= 0.
C20_AlwaysShorter ==
    TooLong => Len(trimmed) < Len(text)

\* C20, amended: a text that does not fit comes back strictly shorter when no
\* hard cut takes place; after a hard cut the result has the maxChars - 20
\* characters kept (none when that is negative) plus the 22 of the marker,
\* whatever the length of the text.
C20_ShorterWithoutHardCut ==
    TooLong =>
        IF HardCut
        THEN Len(trimmed) = (IF MaxCharsFor(maxTokens) > 20 THEN MaxCharsFor(maxTokens) - 20
                             ELSE 0) + Len(TruncationMarker)
        ELSE Len(trimmed) < Len(text)

\* A text that did not fit came back reassembled, shorter and not empty
C20_Witness ==
    /\ TooLong
    /\ previous = <<>>
    /\ ~HardCut
    /\ trimmed # <<>>
    /\ Len(trimmed) < Len(text)

\* A text that did not fit came back longer than it was
LongerAfterHardCut ==
    /\ TooLong
    /\ previous = <<>>
    /\ HardCut
    /\ Len(trimmed) > Len(text)

----------------------------------------------------------------------------
(* The extension shell: C21..C30 *)

\* The template with each placeholder replaced by the value meant for it
Substituted(issue, contextSummary) ==
    <<sPromptHead>> \o contextSummary \o <<sPromptIssue>> \o issue.file \o <<sPromptLine>>
    \o ToDigits(issue.line) \o <<sPromptDash>> \o issue.ruleId \o <<sPromptDash>>
    \o issue.message \o <<sPromptConstraints>>

\* A string without the characters replace reads as patterns and without the
\* text of a placeholder
IsPlain(str) == \A i \in 1..Len(str) : str[i] \notin {"$", phFile, phMessage}

\* C21: for every issue and every context summary, also those that hold
\* placeholder text or characters special in a replacement string,
\* buildPrompt returns the template with each of its five placeholders
\* replaced exactly once by its value: the summary, the file, the line, the
\* rule id and the message stand in it verbatim, no placeholder of the
\* template is left, and the instruction forbidding code is still there.
C21_PlaceholdersSubstituted ==
    PromptDone =>
        /\ prompt = Substituted(promptIssue[1], promptContext)
        /\ Includes(prompt, <<sPromptConstraints>>)

\* What does hold: the same for values that are plain
PlainValuesSubstituted ==
    (/\ PromptDone
     /\ IsPlain(promptContext)
     /\ IsPlain(promptIssue[1].file)
     /\ IsPlain(promptIssue[1].ruleId)
     /\ IsPlain(promptIssue[1].message)) =>
        prompt = Substituted(promptIssue[1], promptContext)

\* A message of the two characters $& came back as the placeholder it replaced
MessagePatternExpanded ==
    /\ PromptDone
    /\ promptIssue[1].message = <<"$", "&">>
    /\ IsPlain(promptContext) /\ IsPlain(promptIssue[1].file) /\ IsPlain(promptIssue[1].ruleId)
    /\ Includes(prompt, <<phMessage>>)
    /\ ~Includes(prompt, <<"$", "&">>)

\* The issues of a list that have the given severity, in the order of the list
WithSeverity(list, severity) == SelectSeq(list, LAMBDA x : x.severity = severity)

\* C22: after any sequence of setIssues calls, the root getChildren() returns
\* exactly the issues of the most recent call, errors first, then warnings,
\* then infos, in input order within a severity; the array passed to
\* setIssues is not reordered; getChildren(element) is empty for every element.
C22_LatestIssuesBySeverity ==
    /\ setArg = setArgAtCall
    /\ treeIssues = WithSeverity(setArgAtCall, "error") \o WithSeverity(setArgAtCall, "warning")
                    \o WithSeverity(setArgAtCall, "info")
    /\ children # <<>> =>
          IF children[1].element # <<>> THEN children[1].items = <<>>
          ELSE /\ Len(children[1].items) = Len(treeIssues)
               /\ \A k \in 1..Len(treeIssues) : children[1].items[k].issue = treeIssues[k]

\* A second setIssues, with its issues out of severity order and two of one
\* severity, has been followed by getChildren at the root
C22_Witness ==
    /\ setCalls = 2
    /\ Len(setArg) = 3
    /\ setArg[1].severity = "warning" /\ setArg[2].severity = "error"
    /\ setArg[3].severity = "warning" /\ setArg[1].file # setArg[3].file
    /\ children # <<>> /\ children[1].element = <<>>
    /\ Len(children[1].items) = 3
    /\ children[1].items[2].issue = setArg[1]

\* The index of the first line after the comment a file opens with (one more
\* than the number of lines when the comment runs to the end): line comments,
\* block comments up to the line that closes them, and empty lines between
RECURSIVE CommentEnd(_, _, _)
CommentEnd(ls, i, inBlock) ==
    IF i > Len(ls) THEN i
    ELSE LET t == TrimWs(ls[i]) IN
         IF inBlock THEN CommentEnd(ls, i + 1, ~Includes(t, sBlockClose))
         ELSE IF t = <<>> THEN CommentEnd(ls, i + 1, FALSE)
         ELSE IF StartsWith(t, sBlockOpen)
              THEN CommentEnd(ls, i + 1, ~Includes(t, sBlockClose))
         ELSE IF StartsWith(t, sLineComment) THEN CommentEnd(ls, i + 1, FALSE)
         ELSE i

OpensWithComment(ls) ==
    StartsWith(TrimWs(ls[1]), sBlockOpen) \/ StartsWith(TrimWs(ls[1]), sLineComment)

\* The brief holds no text of a line after the leading comment, and at most 3 sentences
BriefFromCommentOnly(ls, brief) ==
    /\ \A i \in CommentEnd(ls, 1, FALSE)..Len(ls) :
          TrimWs(ls[i]) # <<>> => ~Includes(brief, TrimWs(ls[i]))
    /\ CountChar(brief, ".") <= 3

SummariesDone == cpc \notin {"idle", "call"}

\* C23: when a file opens with a leading comment (line style, multi-line
\* block style, or a block comment opened and closed on one line) within its
\* first 15 lines, the brief is made only of text of that comment, at most
\* its first 3 sentences; no text of a code line after the comment is in it.
C23_BriefFromLeadingComment ==
    SummariesDone =>
        \A k \in 1..Len(ctxFiles) :
            LET ls == SplitLines(ctxFiles[k].text, <<>>) IN
            OpensWithComment(ls) => BriefFromCommentOnly(ls, fileSummaries[k].brief)

\* What does hold: the same for files that do not open with a block comment
\* closed on the line that opens it
BriefFromOpenCommentOnly ==
    SummariesDone =>
        \A k \in 1..Len(ctxFiles) :
            LET ls == SplitLines(ctxFiles[k].text, <<>>) IN
            (OpensWithComment(ls) /\ TrimWs(ls[1]) # blockOneLine) =>
                BriefFromCommentOnly(ls, fileSummaries[k].brief)

\* Opening braces less closing braces on the lines j..k of ls
BraceBalance(ls, j, k) ==
    LET RECURSIVE sum(_)
        sum(i) == IF i > k THEN 0
                  ELSE CountChar(ls[i], "{") - CountChar(ls[i], "}") + sum(i + 1)
    IN sum(j)

\* Line i of ls stands after a collected function signature and before the
\* brace that closes the body the signature opens
InFunctionBody(ls, i) ==
    \E j \in 1..(i - 1) :
        /\ MatchesFunction(TrimWs(ls[j])) \/ MatchesArrowConst(TrimWs(ls[j]))
        /\ ls[j] \in Range(functionSignatures)
        /\ \A k \in j..i : BraceBalance(ls, j, k) > 0

\* C24: while trimForTokens scans, a line that stands after a collected
\* function signature and before the closing brace of that function is put
\* in none of the import, type and signature buckets, so that no line of a
\* function body reaches the trimmed output.
C24_BodyLinesSkipped ==
    [][(tpc = "scan" /\ tpc' = "scan" /\ InFunctionBody(lines, lineIdx))
        => UNCHANGED <<imports, typeDeclarations, functionSignatures>>]_vars

\* What the loop does keep to: a line is put in a bucket for the way it
\* starts alone, whatever inFunction and braceDepth hold
BucketIgnoresFunctionState ==
    [][(tpc = "scan" /\ tpc' = "scan") =>
        LET t == TrimWs(lines[lineIdx])
            b == Bucket(t, inBlockComment', Len(comments))
        IN /\ (b = "import") = (imports' # imports)
           /\ (b = "type") = (typeDeclarations' # typeDeclarations)
           /\ (b = "signature") = (functionSignatures' # functionSignatures)]_vars

\* A trimmed text that holds an import line taken from inside a function body
BodyLineInOutput ==
    /\ tpc = "done"
    /\ previous = <<>>
    /\ lines = <<functionLine, importLine, closeLine>>
    /\ trimmed = JoinLines(<<importLine, <<>>, functionLine>>)

\* The traversal of deepNestingRule is under way or has just ended
NestingRun == pc = "run" /\ RULES[ruleIdx] = "deep-nesting"

\* The nesting nodes the traversal has entered and not yet exited, in the
\* order of their entry, read off the events that came before event n
OpenNesting(tree, evs, n) ==
    LET entered(i) == \E k \in 1..(n - 1) : evs[k].enter /\ evs[k].node = i
        exited(i) == \E k \in 1..(n - 1) : ~evs[k].enter /\ evs[k].node = i
    IN SelectSeq([j \in 1..Len(tree) |-> j],
                 LAMBDA i : IsNestingNode(tree[i]) /\ entered(i) /\ ~exited(i))

\* The counter and the stack agree with the open nesting nodes
DepthIsOpenNesting ==
    NestingRun =>
        LET open == OpenNesting(ast, RuleEvents, pos)
        IN /\ currentDepth = Len(depthStack)
           /\ currentDepth = Len(open)
           /\ currentDepth >= 0
           /\ \A k \in 1..Len(depthStack) :
                 depthStack[k].node = open[k] /\ depthStack[k].depth = k
           /\ pos > Len(RuleEvents) => (currentDepth = 0 /\ depthStack = <<>>)

\* The exit of a nesting node pops the entry that node pushed and decrements
ExitPopsOwnEntry ==
    (NestingRun /\ NestingRun' /\ pos' = pos + 1
        /\ ~RuleEvents[pos].enter /\ IsNestingNode(ast[RuleEvents[pos].node]))
    => /\ depthStack # <<>>
       /\ Last(depthStack).node = RuleEvents[pos].node
       /\ depthStack' = Front(depthStack)
       /\ currentDepth' = currentDepth - 1

\* C25: throughout the traversal of the deep-nesting rule the depth counter
\* equals the size of the depth stack and the number of nesting nodes entered
\* and not yet exited; it is never negative; each exit of a nesting node pops
\* the entry that node pushed and decrements the counter; at the end of the
\* traversal the counter is 0 and the stack is empty.
C25_DepthMatchesStack == []DepthIsOpenNesting /\ [][ExitPopsOwnEntry]_vars

\* The traversal stands inside a nesting node after leaving an earlier one,
\* in a tree that also holds a node that does not nest
C25_Witness ==
    /\ NestingRun
    /\ currentDepth = 1
    /\ Len(depthStack) = 1
    /\ \E k \in 1..(pos - 1) :
          ~RuleEvents[k].enter /\ IsNestingNode(ast[RuleEvents[k].node])
    /\ \E i \in 1..Len(ast) : ~IsNestingNode(ast[i])

\* C26: buildContext leaves the issue list it is passed unchanged: when the
\* call returns, the array holds the same issues in the same order as at the
\* call.
C26_IssueListUnchanged == cpc = "done" => ctxIssues = issuesAtCall

\* What the call does leave alone: the array holds the same issues as at the
\* call, each as many times, in the order of getTopIssues
IssueListPermuted ==
    cpc = "done" => ctxIssues = SortIssues(issuesAtCall)

\* buildContext returned after getTopIssues reordered the caller's array
IssueListReordered ==
    /\ cpc = "done"
    /\ Len(issuesAtCall) = 2
    /\ issuesAtCall[1].severity = "info"
    /\ issuesAtCall[2].severity = "error"
    /\ ctxIssues = <<issuesAtCall[2], issuesAtCall[1]>>

\* The files getIssuesForFile is asked about: those of the issues and one more
pathOther == <<"/", "z">>
DiagUris == {UriFile(p) : p \in DiagPaths \cup {pathOther}}

\* The issues of file f in the latest call, in their input order
LatestIssuesOf(f) ==
    IF lastDiag = <<>> \/ lastDiag[1].op = "clear" THEN <<>>
    ELSE SelectSeq(lastDiag[1].issues, LAMBDA x : UriFile(x.file) = f)

\* How many times x stands in a list
Occurrences(list, x) == Cardinality({k \in 1..Len(list) : list[k] = x})

\* C29: after any sequence of updateDiagnostics and clear calls,
\* getIssuesForFile(f) returns for every file f the issues of f from the most
\* recent updateDiagnostics call in their input order, and the empty list when
\* the most recent call was clear or that update had no issue for f; the
\* issues over all files are exactly those of the most recent update.
C29_LatestIssuesPerFile ==
    /\ \A f \in DiagUris : GetIssuesForFile(f) = LatestIssuesOf(f)
    /\ \A k \in 1..Len(issuesMap) : UriParse(issuesMap[k].key) \in DiagUris
    /\ \A x \in DiagIssues :
          LET held == Cardinality({<<k, j>> \in (1..Len(issuesMap)) \X (1..MaxDiagIssues + 1) :
                          j <= Len(issuesMap[k].value) /\ issuesMap[k].value[j] = x})
          IN held = (IF lastDiag = <<>> THEN 0 ELSE Occurrences(lastDiag[1].issues, x))

\* A second call was an update whose two issues name one file in two ways,
\* relatively and absolutely, and both are returned for that file in order
C29_Witness ==
    /\ diagCalls = 2
    /\ lastDiag # <<>>
    /\ lastDiag[1].op = "update"
    /\ Len(lastDiag[1].issues) = 2
    /\ lastDiag[1].issues[1].file = pathAbsoluteA
    /\ lastDiag[1].issues[2].file = pathLowerA
    /\ GetIssuesForFile(UriFile(pathLowerA)) = lastDiag[1].issues
    /\ GetIssuesForFile(UriFile(pathWithSpace)) = <<>>

\* Every diagnostic the collection holds, with the issue it was made from
DiagnosticPairs ==
    {<<diagnosticCollection[k].diagnostics[j], issuesMap[k].value[j]>> :
        <<k, j>> \in {<<k, j>> \in (1..Len(issuesMap)) \X (1..MaxDiagIssues + 1) :
                          j <= Len(issuesMap[k].value)}}

\* C30: the diagnostic made for an issue (line counted from 1, column from 0)
\* lies on the zero-based line issue.line - 1, its range starts at character
\* issue.column, and the range covers at least one character.
C30_RangeAtIssueColumn ==
    \A p \in DiagnosticPairs :
        LET range == p[1].range
            issue == p[2]
        IN /\ range.start.line = issue.line - 1
           /\ range.end.line = issue.line - 1
           /\ range.start.character = issue.column
           /\ range.end.character > range.start.character

\* What issueToDiagnostic does give: the line of the issue, and the one
\* character before the issue's column, or nothing at column 0
RangeBeforeIssueColumn ==
    \A p \in DiagnosticPairs :
        LET range == p[1].range
            issue == p[2]
        IN /\ range.start.line = issue.line - 1
           /\ range.end.line = issue.line - 1
           /\ range.end.character = issue.column
           /\ range.start.character = (IF issue.column = 0 THEN 0 ELSE issue.column - 1)

\* A diagnostic for an issue at column 0 whose range is empty
EmptyRangeAtColumnZero ==
    \E p \in DiagnosticPairs :
        /\ p[2].column = 0
        /\ p[1].range.start = p[1].range.end

\* The traversal of unusedVarsRule is over and the rule is about to return
UnusedRuleReturns == pc = "run" /\ RULES[ruleIdx] = "unused-vars" /\ pos > Len(RuleEvents)

\* C28: the rule id that the unused-variable rule puts on its issues is the
\* id its consumers key on: for every issue the rule returns, the diagnostic
\* made by the diagnostics manager carries the Unnecessary tag and the
\* explanation panel picks the unused-variable entry of its mock data, not
\* the generic text.
C28_UnusedIdKeyedOn ==
    UnusedRuleReturns =>
        \A x \in Range(RuleResult) :
            /\ "Unnecessary" \in Range(IssueToDiagnostic(x).tags)
            /\ GetMockedExplanation(x) = mockData["unused-var"]

\* What the consumers make of the rule's issues: no tag and the generic text
UnusedIdUnknownToConsumers ==
    UnusedRuleReturns =>
        \A x \in Range(RuleResult) :
            /\ x.ruleId = "unused-vars"
            /\ IssueToDiagnostic(x).tags = <<>>
            /\ GetMockedExplanation(x).key = ""

\* The rule returns an issue for an unused variable
UnusedIssueReturned == UnusedRuleReturns /\ RuleResult # <<>>

\* Two or more invocations were made and all have completed
RunsCompleted == Len(runs) >= 2 /\ \A r \in 1..Len(runs) : runs[r].pc = "done"

\* The sidebar and the diagnostics hold the issue list of invocation r
UIHolds(r) ==
    /\ treeIssues = SortBySeverity(runs[r].issues)
    /\ issuesMap = GroupInto(<<>>, runs[r].issues)
    /\ diagnosticCollection = DiagnosticsOf(issuesMap)

\* C27: when the command is run again while an earlier invocation is still in
\* progress, then once all invocations have completed the sidebar and the
\* diagnostics hold the issue list computed by the invocation that started
\* last, however the invocations interleave at their awaits.
C27_LaterStartedWins == RunsCompleted => UIHolds(Len(runs))

\* What does hold: the sidebar and the diagnostics hold one and the same
\* list, that of the invocation that completed last
LastCompletedWins ==
    RunsCompleted =>
        \E r \in 1..Len(runs) :
            /\ runs[r].finished = Len(runs)
            /\ UIHolds(r)

\* The second invocation scanned the changed workspace and completed before
\* the first one, whose older list is what the UI is left with
EarlierStartedOverwrites ==
    /\ RunsCompleted
    /\ Len(runs) = 2
    /\ runs[1].finished = 2
    /\ runs[1].scannedFiles # runs[2].scannedFiles
    /\ runs[2].scannedFiles = <<workspace>>
    /\ UIHolds(1)
    /\ ~UIHolds(2)
========================================================================
